---------------------------- MODULE Spec2Model ----------------------------
(***************************************************************************)
(* A model of the earthquake-rescue dispatch code: the RouteOptimizer      *)
(* (src/src/routing/route_optimizer.py), the two API servers that feed it  *)
(* (src/src/api/main.py, src/simple_api.py) and the three drone simulators  *)
(* (src/src/simulation/drone_simulator.py, src/real_time_simulator.py,     *)
(* src/enhanced_simulator.py).                                             *)
(*                                                                         *)
(* Units.  All positions lie on one meridian (the longitude is the same    *)
(* everywhere), so a position is its latitude, written as a whole number   *)
(* of decimetres north of a reference point.  On a meridian the haversine  *)
(* formula gives the length of the shorter arc of the great circle between *)
(* the two points (see Arc).  The code computes it in floats, and the      *)
(* float may fall a little short of the arc: calculate_distance is in      *)
(* centimetres, and a float that falls short is kept as one centimetre     *)
(* less than the arc.  int(distance) truncates metres: a division by 100.  *)
(* The clock counts whole hours.  A survival likelihood is a whole number  *)
(* of percent.  A priority score is a double in the code; it is kept as an *)
(* integer that tells the exact product and the rounding of the doubles    *)
(* apart (see ScoreGrain and calculate_priority_score).                    *)
(* estimated_time is kept in milliseconds (see extract_solution).          *)
(***************************************************************************)
EXTENDS Integers, Sequences, FiniteSets, TLC

VARIABLES
    victims,         \* RouteOptimizer.victims: dict id -> Victim, in insertion order
    responders,      \* RouteOptimizer.responders: dict id -> Responder, in insertion order
    victims_data,    \* main.py victims_data: dict id -> the same Victim objects
    responders_data, \* main.py responders_data
    telemetry_data,  \* main.py telemetry_data: the log of received telemetry
    estimator,       \* the survival model as main.py consults it: person_id -> percent
    rounding,        \* the pairs of latitudes whose float distance falls short of the arc
    own_objects,     \* the ids whose victims_data entry is another object than the optimizer's
    now,             \* datetime.now(), in hours
    ret,             \* what the last call returned: [op, val]
    simple_victims_data,     \* simple_api.py victims_data: dict id -> dict
    simple_responders_data,  \* simple_api.py responders_data
    simple_telemetry_data,   \* simple_api.py telemetry_data
    drones,          \* DroneSimulator.drones: the fleet, in the order it was built
    message_seq,     \* DroneSimulator.message_seq
    sim_victims,     \* DroneSimulator.victims, as the number of them
    rt_drones,       \* RealTimeSimulator.drones: the fleet, in the order it was built
    en_drones,       \* EnhancedDroneSimulator.drones: the fleet, in the order it was built
    en_victims,      \* EnhancedDroneSimulator.victims, as the number of them
    score_victim,    \* the Victim whose score is computed
    score_clock,     \* datetime.now() of the score computations, in hours
    score_log,       \* the computations so far: [at, score], the last two kept
    tasks,           \* the handler calls uvicorn's event loop has not finished
    running          \* the place in tasks of the coroutine that has the loop, or 0

apiVars == <<victims, responders, victims_data, responders_data, telemetry_data,
             estimator, rounding, own_objects, now>>

simpleVars == <<simple_victims_data, simple_responders_data, simple_telemetry_data>>

simVars == <<drones, message_seq, sim_victims, rt_drones, en_drones, en_victims>>

scoreVars == <<score_victim, score_clock, score_log>>

loopVars == <<tasks, running>>

vars == <<apiVars, simpleVars, simVars, scoreVars, loopVars, ret>>

\* What the handlers of main.py leave alone, what those of simple_api.py do,
\* what the simulator does, and what a score computation does.
notApi == <<simpleVars, simVars, scoreVars, loopVars>>
notSimple == <<apiVars, simVars, scoreVars, loopVars>>
notSim == <<apiVars, simpleVars, scoreVars, loopVars>>
notScore == <<apiVars, simpleVars, simVars, loopVars, ret>>
\* What a coroutine of main.py leaves alone while the loop runs it.
notServer == <<simpleVars, simVars, scoreVars>>

-----------------------------------------------------------------------------
(* Bounds of the model and constants of the program.                       *)

MaxTime == 2
MaxTelemetry == 3
MaxDrones == 2
MaxMessageSeq == 4
MaxBatterySeq == 30
MaxInFlight == 2

\* route_optimizer.py:210, the capacity of the 'Time' dimension
VehicleCapacity == 300
\* route_optimizer.py:140, the default of max_victims_per_responder
MaxVictimsPerResponder == 5
\* route_optimizer.py:111, time_factor = 1 + time_elapsed / 24
HoursPerDay == 24
\* route_optimizer.py:59, R = 6371000 m: the arc of 180 degrees, R * pi, in
\* decimetres.  Two latitudes are never farther apart.
LatitudeSpan == 200150868

\* enhanced_simulator.py:155, check_for_victims finds no victim beyond 25
MaxEnhancedVictims == 25

\* The age, in hours, beyond which expireStale(now, maxAge) is to expire a
\* victim no responder was assigned to (configurable; 1 hour here).
maxAge == 1

-----------------------------------------------------------------------------
(* Python helpers.                                                         *)

Abs(x) == IF x < 0 THEN -x ELSE x

Min(a, b) == IF a < b THEN a ELSE b

Range(s) == {s[i] : i \in 1..Len(s)}

\* s[:n]; a negative n counts from the end.
Take(s, n) == SubSeq(s, 1, IF n < 0 THEN Len(s) + n ELSE Min(n, Len(s)))

RECURSIVE SumSeq(_)
SumSeq(s) == IF s = <<>> THEN 0 ELSE Head(s) + SumSeq(Tail(s))

RECURSIVE GCD(_, _)
GCD(a, b) == IF b = 0 THEN a ELSE GCD(b, a % b)

\* a / b of two naturals, b > 0: the quotient as a fraction in lowest terms.
Div(a, b) ==
    LET g == GCD(a, b)
    IN  [num |-> a \div g, den |-> b \div g]

\* max(a, b)
Max(a, b) == IF a > b THEN a ELSE b

\* s[-n:], the last n elements of s, or all of s when it has fewer.
Last(s, n) == SubSeq(s, Max(1, Len(s) - n + 1), Len(s))

\* The keys of a dict kept as the sequence of its values (records with an id).
Keys(d) == {d[i].id : i \in 1..Len(d)}

\* d[key]
DictGet(d, key) == d[CHOOSE i \in 1..Len(d) : d[i].id = key]

\* A store that keeps the last record only (a variant, to show that the
\* no-removal check depends on how a record is stored).
DictReset(d, rec) == <<rec>>

\* d[rec.id] = rec: a known key keeps its place, a new key goes last.
DictPut(d, rec) ==
    IF rec.id \in Keys(d)
    THEN [i \in 1..Len(d) |-> IF d[i].id = rec.id THEN rec ELSE d[i]]
    ELSE Append(d, rec)

\* A listing in the order of the store (a variant, to show that the order
\* check depends on the sort).
unsorted(vs) == vs

\* sorted(vs, key=lambda v: v.priority_score, reverse=True): a stable sort, so
\* records of equal score keep the order they had in vs.
sorted_by_priority(vs) ==
    LET n == Len(vs)
        pos(i) == 1 + Cardinality({j \in 1..n :
                        \/ vs[j].priority_score > vs[i].priority_score
                        \/ vs[j].priority_score = vs[i].priority_score /\ j < i})
    IN  [p \in 1..n |-> vs[CHOOSE i \in 1..n : pos(i) = p]]

-----------------------------------------------------------------------------
(* RouteOptimizer: distances and scores.                                   *)

\* The haversine formula on one meridian, in decimetres: delta_lon is 0, so
\* a = sin(delta_lat / 2) ** 2 and c = 2 * asin(sqrt(a)) is the angle between
\* the two points, between 0 and pi: the shorter arc of the great circle,
\* which is never longer than R * pi.
Arc(lat1, lat2) ==
    LET d == Abs(lat2 - lat1) % (2 * LatitudeSpan)
    IN  IF d > LatitudeSpan THEN 2 * LatitudeSpan - d ELSE d

\* _calculate_distance on one meridian, in centimetres.  It is a float: for
\* some pairs of latitudes R * c falls short of the arc by a rounding error
\* (1.9999999999999987 for an arc of 2 m), for others it does not; which
\* pairs, depends on the digits of the coordinates, which the model does not
\* keep, so they are the pairs of rounding.  A shortfall is kept as 1 cm.
\* Equal latitudes give delta_lat = 0 and a distance of exactly 0.
calculate_distance(lat1, lat2) ==
    LET arc == Arc(lat1, lat2)
    IN  IF arc > 0 /\ {lat1, lat2} \in rounding THEN 10 * arc - 1 ELSE 10 * arc

\* int(distance): whole metres, truncated.
IntMetres(cm) == cm \div 100

\* A factor that is 1.0 for every injury level (a variant, to show that the
\* score check depends on the table).
InjuryFactorFlat(level) == 10

\* injury_factors.get(level, 1.0), times 10.
InjuryFactor(level) ==
    CASE level = "unconscious" -> 15
      [] level = "severe" -> 13
      [] level = "minor" -> 11
      [] level = "none" -> 10
      [] OTHER -> 10

\* The scores of the code are doubles.  The product
\*   survival_likelihood * 100 * (1 + time_elapsed / 24) * injury_factor
\* is, in exact arithmetic, percent * (24 + time_elapsed) * factor10 / 240;
\* the double that the three multiplications, the division and the addition
\* of the code give is not always the double nearest to it (0.6 * 100 is
\* 60.0, and 60.0 * (1 + 1/24) * 1.5 is 93.75000000000001, not 93.75).  A
\* score is kept as
\*   ScoreGrain * (240 * the exact product) + the number of doubles from the
\*   double nearest to the exact product up to the double of the code,
\* an integer: two scores are equal, or ordered, as the doubles of the code
\* are, since two different exact products lie 1/240 apart at least and the
\* code's double lies three doubles from the product's at most.
ScoreGrain == 8

\* The tables below were computed by the arithmetic of the code on the
\* double percent / 100, for every survival likelihood of 0..100 percent,
\* every whole number of hours from -1 to 4 and the four injury factors.

\* The survival likelihoods, in percent, whose score is the double next
\* above the double nearest to the exact product.
OneAbove(time_elapsed, injury_factor) ==
    CASE time_elapsed = -1 /\ injury_factor = 10 ->
            {11, 19, 22, 25, 31, 35, 38, 41, 44, 47, 50, 53, 55, 59, 62,
              65, 67, 70, 73, 76, 79, 82, 85, 88, 91, 94, 97, 100}
      [] time_elapsed = -1 /\ injury_factor = 11 ->
            {5, 10, 11, 13, 15, 17, 20, 21, 22, 23, 25, 26, 27, 30, 31,
              34, 35, 39, 40, 41, 42, 43, 44, 45, 46, 47, 49, 50, 52, 54,
              60, 61, 62, 63, 65, 67, 68, 69, 70, 71, 73, 77, 78, 79, 80,
              82, 83, 84, 85, 86, 88, 90, 92, 93, 94, 95, 98, 99, 100}
      [] time_elapsed = -1 /\ injury_factor = 13 ->
            {3, 6, 7, 11, 12, 13, 14, 17, 19, 22, 23, 24, 25, 26, 28, 31,
              33, 34, 35, 37, 38, 41, 43, 44, 46, 47, 48, 49, 50, 52, 55,
              56, 59, 62, 66, 67, 68, 70, 71, 73, 74, 76, 77, 79, 81, 82,
              83, 85, 86, 88, 89, 91, 92, 94, 96, 97, 98, 100}
      [] time_elapsed = -1 /\ injury_factor = 15 ->
            {7, 11, 14, 19, 22, 28, 35, 38, 41, 44, 55, 56, 67, 70, 73,
              76, 79, 82, 85, 88}
      [] time_elapsed = 0 /\ injury_factor = 10 ->
            {7, 14, 28, 55, 56}
      [] time_elapsed = 0 /\ injury_factor = 11 ->
            {3, 6, 11, 12, 17, 19, 22, 24, 25, 27, 33, 34, 38, 39, 43, 44,
              45, 48, 49, 50, 53, 54, 61, 63, 66, 68, 71, 73, 76, 78, 81,
              83, 85, 86, 88, 90, 91, 93, 95, 96, 98, 100}
      [] time_elapsed = 0 /\ injury_factor = 13 ->
            {3, 6, 7, 9, 12, 13, 14, 18, 23, 24, 26, 28, 31, 36, 41, 46,
              48, 52, 55, 56, 62, 67, 72, 77, 82, 87, 92, 96, 97, 99}
      [] time_elapsed = 0 /\ injury_factor = 15 ->
            {7, 14, 28, 55, 56}
      [] time_elapsed = 1 /\ injury_factor = 10 ->
            {5, 7, 10, 13, 14, 15, 17, 20, 23, 26, 27, 28, 30, 31, 34, 37,
              40, 43, 46, 49, 51, 52, 54, 56, 60, 61, 62, 65, 68, 71, 74,
              77, 80, 83, 86, 89, 92, 95, 98, 99}
      [] time_elapsed = 1 /\ injury_factor = 11 ->
            {1, 2, 3, 4, 5, 6, 7, 8, 10, 11, 12, 13, 14, 15, 16, 17, 19,
              20, 21, 22, 23, 24, 25, 26, 28, 29, 30, 31, 32, 34, 35, 37,
              38, 39, 40, 41, 42, 43, 44, 45, 46, 47, 48, 49, 50, 52, 53,
              56, 58, 60, 61, 62, 64, 65, 67, 68, 70, 71, 73, 74, 76, 77,
              78, 79, 80, 81, 82, 83, 84, 85, 86, 87, 88, 89, 90, 91, 92,
              93, 94, 95, 96, 97, 98, 100}
      [] time_elapsed = 1 /\ injury_factor = 13 ->
            {5, 7, 10, 14, 15, 17, 20, 23, 25, 27, 28, 30, 31, 34, 37, 40,
              43, 46, 50, 51, 53, 54, 55, 56, 59, 60, 62, 65, 68, 71, 74,
              77, 80, 83, 86, 89, 92, 97, 99, 100}
      [] time_elapsed = 1 /\ injury_factor = 15 ->
            {5, 7, 10, 14, 15, 17, 20, 27, 28, 30, 31, 34, 37, 40, 51, 54,
              55, 56, 60, 62, 65, 68, 71, 74, 77, 80, 99}
      [] time_elapsed = 2 /\ injury_factor = 10 ->
            {7, 14, 28, 56}
      [] time_elapsed = 2 /\ injury_factor = 11 ->
            {7, 9, 11, 14, 18, 21, 22, 28, 36, 42, 44, 45, 53, 56, 69, 72,
              73, 75, 84, 87, 88, 90, 91}
      [] time_elapsed = 2 /\ injury_factor = 13 ->
            {3, 6, 7, 12, 14, 24, 28, 39, 48, 55, 56, 63, 78, 96}
      [] time_elapsed = 2 /\ injury_factor = 15 ->
            {}
      [] time_elapsed = 3 /\ injury_factor = 10 ->
            {7, 14, 28, 55, 56}
      [] time_elapsed = 3 /\ injury_factor = 11 ->
            {3, 5, 6, 7, 9, 10, 12, 13, 14, 18, 19, 20, 23, 24, 25, 26,
              28, 31, 33, 36, 38, 40, 41, 43, 45, 46, 48, 50, 51, 52, 55,
              56, 61, 62, 66, 67, 71, 72, 75, 76, 77, 80, 81, 82, 85, 86,
              87, 90, 91, 92, 95, 96, 97, 100}
      [] time_elapsed = 3 /\ injury_factor = 13 ->
            {1, 2, 4, 8, 11, 16, 21, 22, 27, 32, 37, 42, 44, 49, 54, 55,
              59, 64, 69, 74, 79, 84, 87, 88, 93, 98}
      [] time_elapsed = 3 /\ injury_factor = 15 ->
            {7, 14, 28, 55, 56}
      [] time_elapsed = 4 /\ injury_factor = 10 ->
            {5, 7, 10, 13, 14, 17, 20, 23, 26, 27, 28, 31, 34, 37, 40, 43,
              46, 49, 51, 52, 54, 55, 56, 59, 62, 65, 68, 71, 74, 77, 80,
              83, 86, 89, 92, 95, 98, 99}
      [] time_elapsed = 4 /\ injury_factor = 11 ->
            {3, 5, 6, 10, 11, 12, 13, 17, 19, 20, 21, 22, 24, 26, 27, 31,
              34, 35, 37, 38, 39, 40, 41, 42, 44, 45, 47, 48, 51, 52, 53,
              54, 59, 61, 62, 63, 65, 67, 68, 69, 70, 73, 74, 75, 76, 78,
              80, 82, 83, 84, 85, 88, 89, 90, 91, 93, 94, 95, 96, 97}
      [] time_elapsed = 4 /\ injury_factor = 13 ->
            {1, 2, 4, 5, 7, 8, 10, 13, 14, 16, 17, 19, 20, 23, 25, 26, 28,
              31, 32, 33, 34, 37, 38, 40, 41, 46, 47, 49, 50, 51, 52, 56,
              59, 61, 62, 64, 65, 66, 67, 68, 71, 73, 74, 76, 77, 79, 80,
              81, 82, 83, 85, 87, 89, 92, 94, 98, 99, 100}
      [] time_elapsed = 4 /\ injury_factor = 15 ->
            {7, 14, 17, 27, 28, 31, 34, 51, 54, 56, 59, 62, 65, 68, 71, 99}

\* Those whose score is the double next below it.
OneBelow(time_elapsed, injury_factor) ==
    CASE time_elapsed = -1 /\ injury_factor = 10 ->
            {29, 57, 58}
      [] time_elapsed = -1 /\ injury_factor = 11 ->
            {}
      [] time_elapsed = -1 /\ injury_factor = 13 ->
            {29, 57, 58}
      [] time_elapsed = -1 /\ injury_factor = 15 ->
            {57}
      [] time_elapsed = 0 /\ injury_factor = 10 ->
            {29, 57, 58}
      [] time_elapsed = 0 /\ injury_factor = 11 ->
            {57}
      [] time_elapsed = 0 /\ injury_factor = 13 ->
            {29, 58}
      [] time_elapsed = 0 /\ injury_factor = 15 ->
            {29, 57, 58}
      [] time_elapsed = 1 /\ injury_factor = 10 ->
            {}
      [] time_elapsed = 1 /\ injury_factor = 11 ->
            {}
      [] time_elapsed = 1 /\ injury_factor = 13 ->
            {}
      [] time_elapsed = 1 /\ injury_factor = 15 ->
            {}
      [] time_elapsed = 2 /\ injury_factor = 10 ->
            {5, 10, 13, 17, 20, 23, 26, 27, 31, 34, 37, 40, 43, 46, 49,
              51, 52, 54, 62, 65, 68, 71, 74, 77, 80, 83, 86, 89, 92, 95,
              98, 99}
      [] time_elapsed = 2 /\ injury_factor = 11 ->
            {23, 31, 46, 57, 62, 77, 92}
      [] time_elapsed = 2 /\ injury_factor = 13 ->
            {1, 2, 4, 5, 8, 10, 16, 17, 20, 29, 32, 34, 37, 40, 49, 51,
              58, 64, 65, 68, 74, 79, 80, 83, 89, 98, 99}
      [] time_elapsed = 2 /\ injury_factor = 15 ->
            {17, 27, 29, 31, 34, 37, 51, 54, 58, 62, 65, 68, 71, 74, 77,
              99}
      [] time_elapsed = 3 /\ injury_factor = 10 ->
            {29, 57, 58}
      [] time_elapsed = 3 /\ injury_factor = 11 ->
            {29, 58}
      [] time_elapsed = 3 /\ injury_factor = 13 ->
            {29, 57, 58}
      [] time_elapsed = 3 /\ injury_factor = 15 ->
            {}
      [] time_elapsed = 4 /\ injury_factor = 10 ->
            {29, 58}
      [] time_elapsed = 4 /\ injury_factor = 11 ->
            {29, 58}
      [] time_elapsed = 4 /\ injury_factor = 13 ->
            {29, 58}
      [] time_elapsed = 4 /\ injury_factor = 15 ->
            {29, 58}

\* <<time_elapsed, injury_factor, percent>> of the scores two doubles above.
TwoAbove ==
    {<<-1, 10, 7>>, <<-1, 10, 14>>, <<-1, 10, 28>>, <<-1, 10, 56>>,
      <<-1, 11, 19>>, <<-1, 11, 38>>, <<-1, 11, 53>>, <<-1, 11, 55>>,
      <<-1, 11, 59>>, <<-1, 11, 76>>, <<-1, 11, 91>>, <<-1, 11, 97>>,
      <<0, 11, 7>>, <<0, 11, 14>>, <<0, 11, 28>>, <<0, 11, 55>>,
      <<0, 11, 56>>, <<1, 10, 55>>, <<1, 11, 27>>, <<1, 11, 51>>,
      <<1, 11, 54>>, <<1, 11, 55>>, <<1, 11, 99>>, <<4, 11, 7>>,
      <<4, 11, 14>>, <<4, 11, 23>>, <<4, 11, 28>>, <<4, 11, 43>>,
      <<4, 11, 46>>, <<4, 11, 49>>, <<4, 11, 55>>, <<4, 11, 56>>,
      <<4, 11, 71>>, <<4, 11, 77>>, <<4, 11, 86>>, <<4, 11, 92>>,
      <<4, 11, 98>>, <<4, 11, 99>>, <<4, 13, 55>>, <<4, 15, 55>>}

\* Those of the scores two doubles below.
TwoBelow ==
    {<<2, 10, 29>>, <<2, 10, 57>>, <<2, 10, 58>>, <<2, 13, 57>>,
      <<2, 15, 57>>, <<3, 15, 29>>, <<3, 15, 57>>, <<3, 15, 58>>}

\* Those of the scores three doubles above.
ThreeAbove ==
    {<<-1, 11, 7>>, <<-1, 11, 14>>, <<-1, 11, 28>>, <<-1, 11, 56>>}

\* What the doubles of base_score * time_factor * injury_factor add to the
\* double nearest to the exact product, for a survival likelihood of 0..100
\* percent (there is no value outside the tables).
ScoreRounding(percent, time_elapsed, injury_factor) ==
    CASE percent \in 0..100 ->
        IF <<time_elapsed, injury_factor, percent>> \in ThreeAbove THEN 3
        ELSE IF <<time_elapsed, injury_factor, percent>> \in TwoAbove THEN 2
        ELSE IF <<time_elapsed, injury_factor, percent>> \in TwoBelow THEN -2
        ELSE IF percent \in OneAbove(time_elapsed, injury_factor) THEN 1
        ELSE IF percent \in OneBelow(time_elapsed, injury_factor) THEN -1
        ELSE 0

\* A score whose time factor falls with the time elapsed (a variant, to
\* show that the monotonicity check tells the two apart).
calculate_priority_score_decaying(victim, t) ==
    ScoreGrain * (victim.survival_likelihood
                    * (HoursPerDay - (t - victim.time_detected))
                    * InjuryFactor(victim.injury_level))

\* _calculate_priority_score at clock t:
\*   base_score * time_factor * injury_factor
\*     = (pct) * (1 + elapsed/24) * (factor10/10)
\*     = pct * (24 + elapsed) * factor10 / 240, as the doubles give it.
calculate_priority_score(victim, t) ==
    LET base_score == victim.survival_likelihood
        time_elapsed == t - victim.time_detected
        time_factor == HoursPerDay + time_elapsed
        injury_factor == InjuryFactor(victim.injury_level)
    IN  ScoreGrain * (base_score * time_factor * injury_factor)
            + ScoreRounding(base_score, time_elapsed, injury_factor)

\* The loop of _select_top_victims that stores every victim's score.  Every
\* call of _calculate_priority_score reads datetime.now() anew: reads[i] is
\* what the clock shows when victim i is scored.
Rescored(vs, reads) ==
    [i \in 1..Len(vs) |->
        [vs[i] EXCEPT !.priority_score = calculate_priority_score(vs[i], reads[i])]]

\* The reads of the clock during a pass over vs in which the clock shows t
\* all the time.
AtClock(vs, t) == [i \in 1..Len(vs) |-> t]

\* The first victims of the registry, whatever their scores (a variant, to
\* show that the candidate-set check depends on the sort).
select_first_victims(vs, max_victims) == Take(vs, max_victims)

\* _select_top_victims(max_victims) on rescored victims.
select_top_victims(vs, max_victims) == Take(sorted_by_priority(vs), max_victims)


-----------------------------------------------------------------------------
(* RouteOptimizer: one responder's routing problem.                        *)
(*                                                                         *)
(* _solve_vrp_for_responder hands OR-Tools a one-vehicle routing model:    *)
(* node 0 is the responder (start and end of the vehicle), nodes 1..n are  *)
(* the victims, all mandatory (no disjunction is added).  The arc cost and *)
(* the transit of the 'Time' dimension are both the integer distance, so   *)
(* the objective is the length of the closed tour, and the dimension's     *)
(* capacity bounds the cumulated distance at every node, the end node      *)
(* included: a tour is feasible iff its closed length is at most 300.      *)
(* (Slack is at least 0 and the start cumul is free, at least 0: neither   *)
(* makes a longer tour feasible.)                                          *)
(*                                                                         *)
(* The search: PATH_CHEAPEST_ARC builds the first tour, guided local       *)
(* search replaces it only by a strictly cheaper one, and with at most 5   *)
(* victims the 30 s limit is far more than the search of all tours needs.  *)
(* So the solver returns the first tour when no feasible tour is cheaper,  *)
(* and otherwise a cheapest feasible tour (here: the first of them in      *)
(* lexicographic order).  It returns nothing when no tour is feasible.     *)

\* _create_subset_distance_matrix: [responder, victim1, victim2, ...].
create_subset_distance_matrix(responder, vs) ==
    LET n == Len(vs)
        loc(i) == IF i = 0 THEN responder.lat ELSE vs[i].lat
    IN  [i \in 0..n |-> [j \in 0..n |->
            IF i = j THEN 0 ELSE IntMetres(calculate_distance(loc(i), loc(j)))]]

\* The orders in which nodes 1..n can be visited.
Tours(n) == {p \in [1..n -> 1..n] : \A i, j \in 1..n : p[i] = p[j] => i = j}

\* The arcs of a tour from node 0: to the first node, then node to node.
Legs(d, tour) ==
    [k \in 1..Len(tour) |-> d[IF k = 1 THEN 0 ELSE tour[k - 1]][tour[k]]]

\* The length of the tour with the arc back to node 0 counted in (a variant,
\* to show that the distance check depends on leaving the return leg out).
RoundTripCost(d, tour) ==
    SumSeq(Legs(d, tour)) + (IF tour = <<>> THEN 0 ELSE d[tour[Len(tour)]][0])

\* The length of the path the vehicle drives before it turns back.
PathCost(d, tour) == SumSeq(Legs(d, tour))

\* The solver's objective: the path and the arc back to node 0.
ClosedCost(d, tour) ==
    IF tour = <<>> THEN 0 ELSE PathCost(d, tour) + d[tour[Len(tour)]][0]

\* The 'Time' dimension: AddDimension(transit, 30, 300, False, 'Time').
Feasible(d, tour) == ClosedCost(d, tour) <= VehicleCapacity

RECURSIVE path_costliest_arc(_, _, _, _)
\* A first solution that takes the most expensive arc at every node (a
\* variant, to show that the nearest-first check depends on the strategy).
path_costliest_arc(d, n, cur, tour) ==
    LET left == (1..n) \ Range(tour)
        nxt == CHOOSE j \in left : \A k \in left :
                   d[cur][j] > d[cur][k] \/ (d[cur][j] = d[cur][k] /\ j <= k)
    IN  IF left = {} THEN tour
        ELSE path_costliest_arc(d, n, nxt, Append(tour, nxt))

RECURSIVE path_cheapest_arc(_, _, _, _)
\* FirstSolutionStrategy.PATH_CHEAPEST_ARC: from the current node take the
\* cheapest arc to a node not yet visited (the lowest node among equals).
path_cheapest_arc(d, n, cur, tour) ==
    LET left == (1..n) \ Range(tour)
        nxt == CHOOSE j \in left : \A k \in left :
                   d[cur][j] < d[cur][k] \/ (d[cur][j] = d[cur][k] /\ j <= k)
    IN  IF left = {} THEN tour
        ELSE path_cheapest_arc(d, n, nxt, Append(tour, nxt))

\* s before t in lexicographic order (or equal).
LexLeq(s, t) ==
    \/ s = t
    \/ \E k \in 1..Len(s) : s[k] < t[k] /\ \A m \in 1..(k - 1) : s[m] = t[m]

\* routing.SolveWithParameters: <<tour>>, or <<>> when there is no solution.
SolveWithParameters(d, n) ==
    LET feasible == {t \in Tours(n) : Feasible(d, t)}
        best == {t \in feasible : \A u \in feasible : ClosedCost(d, t) <= ClosedCost(d, u)}
        first == path_cheapest_arc(d, n, 0, <<>>)
    IN  IF feasible = {} THEN <<>>
        ELSE IF first \in best THEN <<first>>
        ELSE <<CHOOSE t \in best : \A u \in best : LexLeq(t, u)>>

\* A solution whose route names the first victim at every stop (a variant,
\* to show that the route check depends on how the route is read off).
extract_solution_first(responder, vs, d, tour) ==
    [responder_id |-> responder.id,
     route |-> [k \in 1..Len(tour) |-> vs[1].id],
     total_distance |-> PathCost(d, tour),
     estimated_time |-> PathCost(d, tour) * 720,
     victims_served |-> <<vs[1].id>>]

\* _extract_solution: the route in visiting order; the distance of the arcs
\* driven before the arc into the end node; the time at 5000/3600 m/s, here
\* in milliseconds (1 m takes 720 ms); victims_served in the order of vs.
extract_solution(responder, vs, d, tour) ==
    LET route == [k \in 1..Len(tour) |-> vs[tour[k]].id]
        total_distance == PathCost(d, tour)
    IN  [responder_id |-> responder.id,
         route |-> route,
         total_distance |-> total_distance,
         estimated_time |-> total_distance * 720,
         victims_served |->
             LET ids == [i \in 1..Len(vs) |-> vs[i].id]
             IN  SelectSeq(ids, LAMBDA id : id \in Range(route))]

\* _solve_vrp_for_responder: <<solution>>, or <<>> for None.
solve_vrp_for_responder(responder, vs) ==
    IF vs = <<>> THEN <<>>
    ELSE LET d == create_subset_distance_matrix(responder, vs)
             solution == SolveWithParameters(d, Len(vs))
         IN  IF solution = <<>> THEN <<>>
             ELSE <<extract_solution(responder, vs, d, solution[1])>>

\* A test that lets every responder be routed, whatever its status (a
\* variant, to show that the empty-input check depends on the status test).
IsRegistered(responder) == responder.status = responder.status

\* The test of the loop of optimize_routes that lets a responder be routed.
IsAvailable(responder) == responder.status = "available"

RECURSIVE routes_for(_, _, _)
\* The loop of optimize_routes over self.responders.values().
routes_for(rs, top_victims, max_victims_per_responder) ==
    IF rs = <<>> THEN <<>>
    ELSE LET responder == Head(rs)
             responder_victims == Take(top_victims, max_victims_per_responder)
             rest == routes_for(Tail(rs), top_victims, max_victims_per_responder)
         IN  IF ~IsAvailable(responder) THEN rest
             ELSE solve_vrp_for_responder(responder, responder_victims) \o rest

\* optimize_routes, the clock showing reads[i] when victim i is scored: the
\* victims as it leaves them (rescored, unless it returns early) and the
\* solutions it returns.
optimize_routes(vs, rs, reads, max_victims_per_responder) ==
    IF vs = <<>> \/ rs = <<>>
    THEN [victims |-> vs, solutions |-> <<>>]
    ELSE LET scored == Rescored(vs, reads)
             top_victims == select_top_victims(scored, Len(scored))
         IN  [victims |-> scored,
              solutions |-> routes_for(rs, top_victims, max_victims_per_responder)]

\* A count of the responders that takes every status (a variant, to show
\* that the status check depends on the filter).
count_registered(rs) == Len(rs)

\* len([r for r in responders if r.status == 'available'])
count_available(rs) == Cardinality({i \in 1..Len(rs) : rs[i].status = "available"})

\* The average of the survival likelihoods, 0 for no victims.
avg_survival(vs) ==
    IF vs # <<>>
    THEN Div(SumSeq([i \in 1..Len(vs) |-> vs[i].survival_likelihood]), Len(vs))
    ELSE Div(0, 1)

\* RouteOptimizer.get_system_status, and the dict simple_api builds by the
\* same rules from its own stores.
system_status(vs, rs) ==
    LET total_victims == Len(vs)
        available_responders == count_available(rs)
    IN  [total_victims |-> total_victims,
         available_responders |-> available_responders,
         average_survival_likelihood |-> avg_survival(vs),
         system_load |-> Div(total_victims, Max(available_responders, 1))]

-----------------------------------------------------------------------------
(* The API server, src/src/api/main.py.  An optional value (detected_person) *)
(* is a sequence of length 0 or 1.                                         *)

Returned(op, val) == [op |-> op, val |-> val]

\* The Victim that process_detected_person builds at clock t.
NewVictim(person_data, drone_lat, t) ==
    [id |-> person_data.person_id,
     lat |-> drone_lat,
     survival_likelihood |-> estimator[person_data.person_id],
     injury_level |-> person_data.injury_level,
     time_detected |-> t,
     priority_score |-> 0]

\* A position on the reference meridian, as a telemetry message carries it.
At(lat) == [lat |-> lat, lon |-> 0]

\* The lookups of process_detected_person that raise KeyError when the key is
\* missing: person_data['person_id'], person_data['injury_level'],
\* drone_position['lat'] and drone_position['lon'].  All of them come before
\* the first store is written.
Processable(person_data, position) ==
    /\ {"person_id", "injury_level"} \subseteq DOMAIN person_data
    /\ {"lat", "lon"} \subseteq DOMAIN position

\* A processing that empties the store when it fails (a variant, to show
\* that the failure check depends on what a failure leaves behind).
process_detected_person_clearing(store, person_data, position, t) ==
    IF Processable(person_data, position)
    THEN DictPut(store, NewVictim(person_data, position.lat, t))
    ELSE <<>>

\* process_detected_person at clock t, as it leaves a store of victims: with
\* the new Victim, or, the exception caught and printed, as it was.
process_detected_person(store, person_data, position, t) ==
    IF Processable(person_data, position)
    THEN DictPut(store, NewVictim(person_data, position.lat, t))
    ELSE store

\* POST /telemetry: receive_telemetry, with process_detected_person.  Of a
\* record of the log the model keeps the drone's id.  The one new Victim
\* object goes into the optimizer and into victims_data.
receive_telemetry(drone_id, detected_person, position) ==
    /\ Len(telemetry_data) < MaxTelemetry
    /\ telemetry_data' = Append(telemetry_data, drone_id)
    /\ IF detected_person # <<>>
       THEN /\ victims' = process_detected_person(victims, detected_person[1], position, now)
            /\ victims_data' =
                  process_detected_person(victims_data, detected_person[1], position, now)
            /\ own_objects' = IF Processable(detected_person[1], position)
                               THEN own_objects \ {detected_person[1].person_id}
                               ELSE own_objects
       ELSE UNCHANGED <<victims, victims_data, own_objects>>
    /\ ret' = Returned("receive_telemetry", "success")
    /\ UNCHANGED <<responders, responders_data, estimator, rounding, now, notApi>>

\* A registration that marks the responder as under way to one victim more
\* than it can carry (a variant, to show that the route-length check
\* depends on what a registration stores).
add_responder_enroute(responder_id, lat, capacity, status) ==
    LET responder_obj == [id |-> responder_id, lat |-> lat, capacity |-> capacity,
                          status |-> status,
                          current_route |-> [k \in 1..(capacity + 1) |-> "victim-1"]]
    IN  /\ responders' = DictPut(responders, responder_obj)
        /\ responders_data' = DictPut(responders_data, responder_obj)
        /\ ret' = Returned("add_responder", "success")
        /\ UNCHANGED <<victims, victims_data, telemetry_data, estimator, rounding, own_objects, now, notApi>>

\* POST /responders: add_responder.
add_responder(responder_id, lat, capacity, status) ==
    LET responder_obj == [id |-> responder_id, lat |-> lat, capacity |-> capacity,
                          status |-> status, current_route |-> <<>>]
    IN  /\ responders' = DictPut(responders, responder_obj)
        /\ responders_data' = DictPut(responders_data, responder_obj)
        /\ ret' = Returned("add_responder", "success")
        /\ UNCHANGED <<victims, victims_data, telemetry_data, estimator, rounding, own_objects, now, notApi>>

\* What the clock may show at the reads of a pass over vs that begins now: it
\* never goes back.
ClockReads(vs) ==
    {reads \in [1..Len(vs) -> now..MaxTime] :
        \A i, j \in 1..Len(vs) : i <= j => reads[i] <= reads[j]}

\* The clock after a pass of optimize_routes over vs and rs: the last read,
\* unless the pass returned before it scored a victim.
ClockAfter(vs, rs, reads) ==
    IF vs = <<>> \/ rs = <<>> THEN now ELSE reads[Len(reads)]

\* victims_data after a pass that left the optimizer's victims as scored.
\* An entry that is the optimizer's own Victim object shows the score the
\* pass gave it; an entry whose id is in apart is another object, which the
\* pass does not touch.
SameObjects(scored, apart) ==
    [i \in 1..Len(victims_data) |->
        IF victims_data[i].id \in apart THEN victims_data[i]
        ELSE DictGet(scored, victims_data[i].id)]

\* GET /routes: get_optimized_routes.
get_optimized_routes(reads) ==
    \E out \in {optimize_routes(victims, responders, reads, MaxVictimsPerResponder)} :
        /\ victims' = out.victims
        /\ victims_data' = SameObjects(out.victims, own_objects)
        /\ now' = ClockAfter(victims, responders, reads)
        /\ ret' = Returned("get_optimized_routes", out.solutions)
        /\ UNCHANGED <<responders, responders_data, telemetry_data, estimator, rounding, own_objects, notApi>>

\* POST /routes/update: update_routes, the same pass.
update_routes(reads) ==
    \E out \in {optimize_routes(victims, responders, reads, MaxVictimsPerResponder)} :
        /\ victims' = out.victims
        /\ victims_data' = SameObjects(out.victims, own_objects)
        /\ now' = ClockAfter(victims, responders, reads)
        /\ ret' = Returned("update_routes", out.solutions)
        /\ UNCHANGED <<responders, responders_data, telemetry_data, estimator, rounding, own_objects, notApi>>

\* GET /dashboard/data: get_dashboard_data.  The status, the last 50 records
\* of the log and the victims, in the order of victims_data, are read before
\* the pass: the listing shows the scores the pass found, the stores keep
\* the scores it gave.
get_dashboard_data(reads) ==
    \E out \in {optimize_routes(victims, responders, reads, MaxVictimsPerResponder)} :
        /\ victims' = out.victims
        /\ victims_data' = SameObjects(out.victims, own_objects)
        /\ now' = ClockAfter(victims, responders, reads)
        /\ ret' = Returned("get_dashboard_data",
                      [system_status |-> system_status(victims, responders),
                       telemetry |-> Last(telemetry_data, 50),
                       victims |-> victims_data,
                       routes |-> out.solutions])
        /\ UNCHANGED <<responders, responders_data, telemetry_data, estimator, rounding, own_objects, notApi>>

\* RouteOptimizer.optimize_routes(max_victims_per_responder), called on the
\* server's optimizer with a cap of the caller's choice.
optimize_routes_call(max_victims_per_responder, reads) ==
    \E out \in {optimize_routes(victims, responders, reads, max_victims_per_responder)} :
        /\ victims' = out.victims
        /\ victims_data' = SameObjects(out.victims, own_objects)
        /\ now' = ClockAfter(victims, responders, reads)
        /\ ret' = Returned("optimize_routes",
                      [max_victims_per_responder |-> max_victims_per_responder,
                       solutions |-> out.solutions])
        /\ UNCHANGED <<responders, responders_data, telemetry_data, estimator, rounding, own_objects, notApi>>

\* RouteOptimizer.update_route_dynamically(new_victim), called on the server's
\* optimizer: add_victim, which victims_data does not see, then the pass
\* over the victims with the new one; reads are the reads of that pass.
\* servers_object tells whose object new_victim is.  If it is the Victim
\* object that victims_data holds under the id, the optimizer holds that
\* object from now on, and victims_data shows the score the pass gives it.
\* If it is an object of the caller, victims_data, where it has the id, keeps
\* the server's object, which from now on is not the optimizer's.
update_route_dynamically(new_victim, servers_object, reads) ==
    /\ servers_object =>
          /\ new_victim.id \in Keys(victims_data)
          /\ new_victim = DictGet(victims_data, new_victim.id)
    /\ \E out \in {optimize_routes(DictPut(victims, new_victim), responders, reads,
                                    MaxVictimsPerResponder)} :
        /\ victims' = out.victims
        /\ own_objects' = IF servers_object
                           THEN own_objects \ {new_victim.id}
                           ELSE IF new_victim.id \in Keys(victims_data)
                           THEN own_objects \cup {new_victim.id}
                           ELSE own_objects
        /\ victims_data' = SameObjects(out.victims, own_objects')
        /\ now' = ClockAfter(DictPut(victims, new_victim), responders, reads)
        /\ ret' = Returned("update_route_dynamically", out.solutions)
        /\ UNCHANGED <<responders, responders_data, telemetry_data, estimator, rounding, notApi>>

\* GET /victims: get_victims.
get_victims ==
    /\ ret' = Returned("get_victims", sorted_by_priority(victims_data))
    /\ UNCHANGED <<apiVars, notApi>>

\* GET /status: get_system_status; active_drones counts the drones of the
\* last 100 records of the log.
get_system_status ==
    /\ ret' = Returned("get_system_status",
                  [status |-> system_status(victims, responders),
                   active_drones |-> Cardinality(Range(telemetry_data))])
    /\ UNCHANGED <<apiVars, notApi>>

\* Time passes between two requests.
Tick ==
    /\ now < MaxTime
    /\ now' = now + 1
    /\ UNCHANGED <<victims, responders, victims_data, responders_data,
                   telemetry_data, estimator, rounding, own_objects,
                   ret, notApi>>

-----------------------------------------------------------------------------
(* main.py under concurrent requests.  uvicorn.run(app) serves the app in  *)
(* one process on one asyncio event loop.  Every handler is an 'async def' *)
(* and so runs as a coroutine on that loop, which gives another coroutine  *)
(* a turn only when the running one ends or awaits something that          *)
(* suspends it.  A task is [op, pc, args, local]: the handler, the         *)
(* statement it executes next, the request, and what it keeps in local     *)
(* variables.  A planning task also records the registry as it was when    *)
(* the pass began (victims_at_start, responders_at_start), which the code  *)
(* does not keep: the checks compare against it.                           *)

\* The statements at which a coroutine that arrives there is suspended.  The
\* handlers have one await, 'await process_detected_person(...)' in
\* receive_telemetry: a call of a coroutine function whose body awaits
\* nothing, so it runs to its end within the caller's turn.  optimize_routes
\* is an ordinary call.  No statement suspends.
SuspensionPoints == {}

\* Handlers that give up their turn before every statement, as threads may
\* (a variant, to show that the snapshot check depends on the loop).
SuspendsAnywhere(op, pc) == <<op, pc>> \notin SuspensionPoints

\* Whether the coroutine of handler op is suspended when it arrives at pc.
Suspends(op, pc) == <<op, pc>> \in SuspensionPoints

\* s without its element at place i.
Remove(s, i) == SubSeq(s, 1, i - 1) \o SubSeq(s, i + 1, Len(s))

\* A request arrives: the server makes a task of the handler call.
accept_request(op, pc, args) ==
    /\ Len(tasks) < MaxInFlight
    /\ tasks' = Append(tasks, [op |-> op, pc |-> pc, args |-> args, local |-> <<>>])
    /\ UNCHANGED <<apiVars, running, ret, notServer>>

\* The loop, no coroutine running, gives a task its turn.
resume(i) ==
    /\ running = 0
    /\ running' = i
    /\ UNCHANGED <<apiVars, tasks, ret, notServer>>

\* The running coroutine goes on to statement pc, keeping local.
GoTo(pc, local) ==
    /\ tasks' = [tasks EXCEPT ![running] = [@ EXCEPT !.pc = pc, !.local = local]]
    /\ running' = IF Suspends(tasks[running].op, pc) THEN 0 ELSE running
    /\ ret' = ret

\* The running coroutine returns val.
Return(val) ==
    /\ tasks' = Remove(tasks, running)
    /\ running' = 0
    /\ ret' = Returned(tasks[running].op, val)

\* One statement of receive_telemetry or of the process_detected_person it
\* awaits: the append to the log, route_optimizer.add_victim(victim),
\* victims_data[victim.id] = victim.
run_receive_telemetry ==
    /\ running # 0
    /\ tasks[running].op = "receive_telemetry"
    /\ LET task == tasks[running]
           person == task.args.detected_person
       IN  CASE task.pc = "append" ->
                   /\ Len(telemetry_data) < MaxTelemetry
                   /\ telemetry_data' = Append(telemetry_data, task.args.drone_id)
                   /\ IF person # <<>> /\ Processable(person[1], task.args.position)
                      THEN GoTo("add_victim",
                                NewVictim(person[1], task.args.position.lat, now))
                      ELSE Return("success")
                   /\ UNCHANGED <<victims, victims_data, own_objects>>
             [] task.pc = "add_victim" ->
                   /\ victims' = DictPut(victims, task.local)
                   /\ own_objects' = IF task.local.id \in Keys(victims_data)
                                      THEN own_objects \cup {task.local.id}
                                      ELSE own_objects
                   /\ GoTo("store", task.local)
                   /\ UNCHANGED <<victims_data, telemetry_data>>
             [] task.pc = "store" ->
                   /\ victims_data' = DictPut(victims_data, task.local)
                   /\ own_objects' = own_objects \ {task.local.id}
                   /\ Return("success")
                   /\ UNCHANGED <<victims, telemetry_data>>
    /\ UNCHANGED <<responders, responders_data, estimator, rounding, now, notServer>>

\* One statement of add_responder: route_optimizer.add_responder(responder),
\* responders_data[responder.id] = responder.
run_add_responder ==
    /\ running # 0
    /\ tasks[running].op = "add_responder"
    /\ LET task == tasks[running]
       IN  CASE task.pc = "add_responder" ->
                   /\ responders' = DictPut(responders, task.args)
                   /\ GoTo("store", task.args)
                   /\ UNCHANGED responders_data
             [] task.pc = "store" ->
                   /\ responders_data' = DictPut(responders_data, task.local)
                   /\ Return("success")
                   /\ UNCHANGED responders
    /\ UNCHANGED <<victims, victims_data, telemetry_data, estimator, rounding, own_objects, now, notServer>>

\* One step of get_optimized_routes, that is of optimize_routes: the early
\* return and _select_top_victims, which scores the victims and keeps the
\* sorted list in top_victims; then the loop over self.responders.
run_get_optimized_routes ==
    /\ running # 0
    /\ tasks[running].op = "get_optimized_routes"
    /\ LET task == tasks[running]
       IN  CASE task.pc = "select" ->
                   IF victims = <<>> \/ responders = <<>>
                   THEN /\ Return(<<>>)
                        /\ UNCHANGED <<victims, victims_data>>
                   ELSE LET scored == Rescored(victims, AtClock(victims, now))
                        IN  /\ victims' = scored
                            /\ victims_data' = SameObjects(scored, own_objects)
                            /\ GoTo("route",
                                    [top_victims |-> select_top_victims(scored, Len(scored)),
                                     victims_at_start |-> victims,
                                     responders_at_start |-> responders])
             [] task.pc = "route" ->
                   /\ Return(routes_for(responders, task.local.top_victims,
                                        MaxVictimsPerResponder))
                   /\ UNCHANGED <<victims, victims_data>>
    /\ UNCHANGED <<responders, responders_data, telemetry_data, estimator, rounding, own_objects, now, notServer>>

-----------------------------------------------------------------------------
(* The demo server, src/simple_api.py.  It keeps its own stores and never  *)
(* calls the optimizer.  random.uniform is a choice the caller of the      *)
(* action makes among a few values of the interval.                        *)

Clamp(lo, x, hi) == IF x < lo THEN lo ELSE IF x > hi THEN hi ELSE x

\* injury_scores.get(injury_level, 0.5), in percent.
InjuryScore(level) ==
    CASE level = "none" -> 90
      [] level = "minor" -> 70
      [] level = "severe" -> 40
      [] level = "unconscious" -> 20
      [] OTHER -> 50

\* random.uniform(-0.1, 0.1) is -0.1 + 0.2 * random(), a double.  A draw is
\* named by the whole percent it stands for: these are the percents n of
\* which the generator returns the double n / 100, and 10 is the largest
\* draw, 0.09999999999999998 (0.1 itself is never returned).
Draws == {-10, -9, -7, -5, 0, 3, 6, 7, 9, 10}

\* survival_likelihood * 100 of the demo server is a double, of a sum of
\* doubles: 0.4 + 0.03 is 0.43000000000000005, and times 100 that is
\* 43.00000000000001, where 0.5 - 0.07 gives 43.0.  The table tells, as
\* <<injury score, draw, doubles>>, how many doubles the product lies from
\* the whole percent; it was computed by the arithmetic of the code, clamping
\* included, for the five injury scores and the draws of Draws.
SimpleRoundings ==
    {<<40, -10, 1>>, <<40, -9, 2>>, <<20, -9, 1>>, <<70, -7, -2>>,
     <<70, -5, -1>>, <<20, -5, 1>>, <<40, 3, 1>>, <<50, 6, 1>>, <<50, 7, 1>>,
     <<70, 9, -1>>, <<20, 9, 1>>}

\* The entry of the table: the doubles off, 0 where the table names none
\* (there is no value for a draw outside Draws).
SimpleScoreRounding(injury_score, noise) ==
    CASE noise \in Draws /\ injury_score \in {90, 70, 40, 20, 50} ->
        IF \E off \in {-2, -1, 1, 2} : <<injury_score, noise, off>> \in SimpleRoundings
        THEN CHOOSE off \in {-2, -1, 1, 2} : <<injury_score, noise, off>> \in SimpleRoundings
        ELSE 0

\* The victim dict that simple_api's process_detected_person builds; noise is
\* its random.uniform(-0.1, 0.1), a draw of Draws.  survival_likelihood is
\* kept as the whole percent the double stands for; priority_score, by which
\* the server sorts, is kept as the scores of the optimizer are (see
\* ScoreGrain): ScoreGrain * percent + the doubles the product lies off it.
SimpleVictim(person_data, drone_lat, noise, t) ==
    LET injury_score == InjuryScore(person_data.injury_level)
        survival_likelihood == Clamp(0, injury_score + noise, 100)
    IN  [id |-> person_data.person_id,
         lat |-> drone_lat,
         survival_likelihood |-> survival_likelihood,
         injury_level |-> person_data.injury_level,
         time_detected |-> t,
         priority_score |-> ScoreGrain * survival_likelihood
                                + SimpleScoreRounding(injury_score, noise)]

\* process_detected_person of simple_api, as it leaves the store: the same
\* lookups raise KeyError before the store is written.
simple_process_detected_person(store, person_data, position, noise, t) ==
    IF Processable(person_data, position)
    THEN DictPut(store, SimpleVictim(person_data, position.lat, noise, t))
    ELSE store

\* POST /telemetry of simple_api, with its process_detected_person.
simple_receive_telemetry(drone_id, detected_person, position, noise) ==
    /\ Len(simple_telemetry_data) < MaxTelemetry
    /\ simple_telemetry_data' = Append(simple_telemetry_data, drone_id)
    /\ simple_victims_data' =
          IF detected_person # <<>>
          THEN simple_process_detected_person(simple_victims_data, detected_person[1],
                                              position, noise, now)
          ELSE simple_victims_data
    /\ ret' = Returned("simple_receive_telemetry", "success")
    /\ UNCHANGED <<simple_responders_data, notSimple>>

\* POST /responders of simple_api.
simple_add_responder(responder_id, lat, capacity, status) ==
    LET responder_obj == [id |-> responder_id, lat |-> lat, capacity |-> capacity,
                          status |-> status, current_route |-> <<>>]
    IN  /\ simple_responders_data' = DictPut(simple_responders_data, responder_obj)
        /\ ret' = Returned("simple_add_responder", "success")
        /\ UNCHANGED <<simple_victims_data, simple_telemetry_data, notSimple>>

\* The route simple_api writes for one responder; rnd is the pair of its
\* random.uniform(1000, 5000) and random.uniform(1.0, 3.0) (milliseconds).
SimpleRoute(responder, rnd) ==
    LET sorted_victims == sorted_by_priority(simple_victims_data)
        route_victims == Take(sorted_victims, 3)
        route == [k \in 1..Len(route_victims) |-> route_victims[k].id]
    IN  [responder_id |-> responder.id,
         route |-> route,
         total_distance |-> rnd[1],
         estimated_time |-> rnd[2],
         victims_served |-> route]

RECURSIVE SimpleRoutes(_, _)
\* The loop of simple_api's get_optimized_routes; rnds gives each responder,
\* by its place in the dict, its random draws.
SimpleRoutes(k, rnds) ==
    IF k > Len(simple_responders_data) THEN <<>>
    ELSE LET responder == simple_responders_data[k]
         IN  (IF responder.status = "available"
              THEN <<SimpleRoute(responder, rnds[k])>> ELSE <<>>)
             \o SimpleRoutes(k + 1, rnds)

\* GET /routes of simple_api.
simple_get_optimized_routes(rnds) ==
    /\ ret' = Returned("simple_get_optimized_routes", SimpleRoutes(1, rnds))
    /\ UNCHANGED <<simpleVars, notSimple>>

\* GET /victims of simple_api.
simple_get_victims ==
    /\ ret' = Returned("simple_get_victims", sorted_by_priority(simple_victims_data))
    /\ UNCHANGED <<simpleVars, notSimple>>

\* GET /status of simple_api.
simple_get_system_status ==
    /\ ret' = Returned("simple_get_system_status",
                  [status |-> system_status(simple_victims_data, simple_responders_data),
                   active_drones |-> IF simple_telemetry_data # <<>>
                                     THEN Cardinality(Range(simple_telemetry_data))
                                     ELSE 0])
    /\ UNCHANGED <<simpleVars, notSimple>>

-----------------------------------------------------------------------------
(* The DroneSimulator, src/src/simulation/drone_simulator.py.  Of a drone  *)
(* the model keeps the id, the battery (in half percents) and the status;  *)
(* position, speed, heading, the nearest responder and the beacons are     *)
(* left out, and so are the fields of a telemetry record that copy them.   *)
(* The simulator's victims are kept as their number, a victim being known  *)
(* by its place in the list.  Every random draw is an input of the action. *)

RECURSIVE Digits(_)
\* The decimal digits of a natural number, most significant first.
Digits(i) == IF i < 10 THEN <<i>> ELSE Append(Digits(i \div 10), i % 10)

\* f'{i:03d}': the digits, with zeros in front up to a width of 3.
Pad3(i) ==
    LET ds == Digits(i)
    IN  [k \in 1..(3 - Len(ds)) |-> 0] \o ds

\* An id that does not depend on the drone (a variant, to show that the
\* distinct-ids check depends on the format).
FormatFleetId(i) == [prefix |-> "drone-", digits |-> Pad3(0)]

\* f'drone-{i:03d}'
FormatDroneId(i) == [prefix |-> "drone-", digits |-> Pad3(i)]

\* _initialize_drones: drone i of range(num_drones) stands at place i + 1;
\* rnd[i + 1] is <<battery, status>>, its random draws.
initialize_drones(num_drones, rnd) ==
    [k \in 1..num_drones |->
        [id |-> FormatDroneId(k - 1), battery |-> rnd[k][1], status |-> rnd[k][2]]]

\* An update that tests for 10% before it tests for 20% (a variant, to show
\* that the status check depends on the order of the two tests).
update_drone_state_idle_first(drone, drain) ==
    LET battery == IF drone.battery - drain < 0 THEN 0 ELSE drone.battery - drain
        status == IF battery < 2 * 10 THEN "idle"
                  ELSE IF battery < 2 * 20 THEN "returning"
                  ELSE IF drone.status = "returning" /\ battery > 2 * 80 THEN "searching"
                  ELSE drone.status
    IN  [drone EXCEPT !.battery = battery, !.status = status]

\* _update_drone_state: the battery drains by the draw, not below 0, and the
\* status follows the battery.
update_drone_state(drone, drain) ==
    LET battery == IF drone.battery - drain < 0 THEN 0 ELSE drone.battery - drain
        status == IF battery < 2 * 20 THEN "returning"
                  ELSE IF battery < 2 * 10 THEN "idle"
                  ELSE IF drone.status = "returning" /\ battery > 2 * 80 THEN "searching"
                  ELSE drone.status
    IN  [drone EXCEPT !.battery = battery, !.status = status]

RECURSIVE telemetry_loop(_, _, _, _)
\* The loop of generate_telemetry from drone k on: draws[k] is <<drain,
\* detects, pick>>, the draws of _update_drone_state and of
\* _simulate_person_detection for drone k: pick 0 makes a new victim, any
\* other pick chooses among the victims there are.  The result is the fleet, the
\* number of victims, the sequence number and the records, as the loop
\* leaves them.
telemetry_loop(k, draws, st, telemetry_list) ==
    IF k > Len(st.drones)
    THEN [drones |-> st.drones, victims |-> st.victims, seq |-> st.seq,
          telemetry_list |-> telemetry_list]
    ELSE LET drone == update_drone_state(st.drones[k], draws[k][1])
             makes_new == draws[k][2] /\ (st.victims = 0 \/ draws[k][3] = 0)
             n_victims == IF makes_new THEN st.victims + 1 ELSE st.victims
             detected_person ==
                 IF ~draws[k][2] THEN <<>>
                 ELSE IF makes_new THEN <<n_victims>>
                 ELSE <<((draws[k][3] - 1) % st.victims) + 1>>
             telemetry == [drone_id |-> drone.id,
                           battery_pct |-> drone.battery,
                           status |-> drone.status,
                           detected_person |-> detected_person,
                           message_seq |-> st.seq]
         IN  telemetry_loop(k + 1, draws,
                 [drones |-> [st.drones EXCEPT ![k] = drone],
                  victims |-> n_victims,
                  seq |-> st.seq + 1],
                 Append(telemetry_list, telemetry))

\* DroneSimulator.generate_telemetry, while the sequence numbers stay within
\* max_seq.
generate_telemetry(draws, max_seq) ==
    /\ message_seq + Len(drones) <= max_seq
    /\ \E out \in {telemetry_loop(1, draws,
                      [drones |-> drones, victims |-> sim_victims, seq |-> message_seq],
                      <<>>)} :
          /\ drones' = out.drones
          /\ sim_victims' = out.victims
          /\ message_seq' = out.seq
          /\ ret' = Returned("generate_telemetry", out.telemetry_list)
    /\ UNCHANGED <<rt_drones, en_drones, en_victims, notSim>>

\* RealTimeSimulator.initialize_simulation: drone i of the range stands at
\* place i + 1 and is 'searching'; rnd[i + 1] is its battery.
initialize_simulation(num_drones, rnd) ==
    [k \in 1..num_drones |->
        [id |-> FormatDroneId(k), battery |-> rnd[k], status |-> "searching"]]

\* The body of the loop of update_drone_positions: the same rule as
\* _update_drone_state, written out again in real_time_simulator.py.
update_drone_position(drone, drain) ==
    LET battery == IF drone.battery - drain < 0 THEN 0 ELSE drone.battery - drain
        status == IF battery < 2 * 20 THEN "returning"
                  ELSE IF battery < 2 * 10 THEN "idle"
                  ELSE IF drone.status = "returning" /\ battery > 2 * 80 THEN "searching"
                  ELSE drone.status
    IN  [drone EXCEPT !.battery = battery, !.status = status]

\* RealTimeSimulator.update_drone_positions; drains[k] is the draw of drone k.
update_drone_positions(drains) ==
    /\ rt_drones' = [k \in 1..Len(rt_drones) |-> update_drone_position(rt_drones[k], drains[k])]
    /\ ret' = Returned("update_drone_positions", <<>>)
    /\ UNCHANGED <<drones, message_seq, sim_victims, en_drones, en_victims, notSim>>

\* EnhancedDroneSimulator.initialize_simulation: drone i of the range stands
\* at place i + 1 and is 'searching'; rnd[i + 1] is its battery, drawn from
\* 70 to 100 percent.
enhanced_initialize_simulation(num_drones, rnd) ==
    [k \in 1..num_drones |->
        [id |-> FormatDroneId(k), battery |-> rnd[k], status |-> "searching"]]

\* EnhancedDroneSimulator.update_drone_status on drone k: the battery is
\* drawn anew from 85 to 100 percent, and a 'tracking' drone goes back to
\* 'searching' when resumes, the draw random() < 0.15, says so.
enhanced_update_drone_status(k, battery, resumes) ==
    /\ en_drones' = [en_drones EXCEPT ![k] =
          [@ EXCEPT !.battery = battery,
                    !.status = IF @ = "tracking" /\ resumes THEN "searching" ELSE @]]
    /\ ret' = Returned("update_drone_status", <<>>)
    /\ UNCHANGED <<drones, message_seq, sim_victims, rt_drones, en_victims, notSim>>

\* EnhancedDroneSimulator.check_for_victims on drone k.  due: 30 s have passed
\* since the drone's last check; found: the draw random() < 0.12.  A find
\* adds a victim and makes the drone 'tracking'; the call returns the
\* detected person, or None.
enhanced_check_for_victims(k, due, found) ==
    LET detects == due /\ found /\ en_victims < MaxEnhancedVictims
    IN  /\ en_victims' = IF detects THEN en_victims + 1 ELSE en_victims
        /\ en_drones' = IF detects THEN [en_drones EXCEPT ![k].status = "tracking"]
                         ELSE en_drones
        /\ ret' = Returned("check_for_victims", IF detects THEN <<en_victims + 1>> ELSE <<>>)
        /\ UNCHANGED <<drones, message_seq, sim_victims, rt_drones, notSim>>

-----------------------------------------------------------------------------
(* _calculate_priority_score as a function of the clock.                   *)

\* The clock of the score computations moves on.
ScoreTick ==
    /\ score_clock < MaxTime
    /\ score_clock' = score_clock + 1
    /\ UNCHANGED <<score_victim, score_log, notScore>>

\* One call of _calculate_priority_score on the victim.
ComputeScore ==
    /\ score_log' = Take(<<[at |-> score_clock,
                            score |-> calculate_priority_score(score_victim, score_clock)]>>
                         \o score_log, 2)
    /\ UNCHANGED <<score_victim, score_clock, notScore>>

-----------------------------------------------------------------------------
(* The inputs of the checks.                                               *)

PersonIds == {"victim-1", "victim-2", "victim-3"}
ResponderIds == {"responder-01", "responder-02"}
DroneIds == {"drone-001"}

\* What the survival model may answer: every person 85%, or one person 45%.
EqualEstimates == [id \in PersonIds |-> 85]
MixedEstimates == [id \in PersonIds |-> IF id = "victim-2" THEN 45 ELSE 85]

\* detected_person: absent, or a person of ids with one of the injury levels.
Detections(ids, levels) ==
    {<<>>} \cup {<<[injury_level |-> lv, person_id |-> id]>> : id \in ids, lv \in levels}

\* The pairs of different latitudes among lats.
Pairs(lats) == {{a, b} : a, b \in lats} \ {{a} : a \in lats}

\* The pairs of the latitudes of the checks whose float distance falls short
\* of the arc when the reference point is on the equator, and when it is the
\* earthquake_center at 34.0522 degrees north (a decimetre of latitude being
\* degrees(0.1 / R)), as _calculate_distance computes them.
ShortAtEquator == {{19, 29}, {100, 120}}
ShortAtCenter ==
    {{0, -110}, {0, 100}, {0, 2000}, {19, 29}, {-110, 100}, {-110, 120}, {-110, 2000},
     {100, 2000}, {120, 2000}}

\* Every float distance is the arc, as it is where no distance is computed.
Exact == {{}}

\* main.py and its optimizer after startup, with the survival model's answers
\* and the float distances falling short for the pairs of one of roundings.
InitApi(table, roundings) ==
    /\ victims = <<>>
    /\ responders = <<>>
    /\ victims_data = <<>>
    /\ responders_data = <<>>
    /\ telemetry_data = <<>>
    /\ estimator = table
    /\ rounding \in roundings
    /\ own_objects = {}
    /\ now = 0

\* simple_api.py after startup.
InitSimple ==
    /\ simple_victims_data = <<>>
    /\ simple_responders_data = <<>>
    /\ simple_telemetry_data = <<>>

\* The server's loop at startup, no request taken, and the value of the
\* startup.
InitRet == ret = Returned("startup", "success") /\ tasks = <<>> /\ running = 0

\* A simulator that was never built, and no score computed.
InitNoSim ==
    /\ drones = <<>> /\ message_seq = 0 /\ sim_victims = 0 /\ rt_drones = <<>>
    /\ en_drones = <<>> /\ en_victims = 0

InitNoScore ==
    /\ score_victim = [survival_likelihood |-> 0, injury_level |-> "none", time_detected |-> 0]
    /\ score_clock = 0
    /\ score_log = <<>>

\* Dispatch: two persons 10 m or 200 m north of the responders, who stand at
\* the reference point with capacity 1 or 5.
Init == InitApi(MixedEstimates, SUBSET Pairs({0, 100, 2000})) /\ InitSimple /\ InitNoSim /\ InitNoScore /\ InitRet

\* A responder as the checks register it: its capacity and its status.
ResponderKinds == {<<1, "available">>, <<5, "available">>, <<5, "unavailable">>}

Next ==
    \/ \E dr \in DroneIds,
          p \in Detections({"victim-1", "victim-2"}, {"minor", "severe"}),
          lat \in {100, 2000} : receive_telemetry(dr, p, At(lat))
    \/ \E r \in ResponderIds, k \in ResponderKinds : add_responder(r, 0, k[1], k[2])
    \/ get_optimized_routes(AtClock(victims, now))

Spec == Init /\ [][Next]_vars

\* Geometry: three persons of equal priority around one responder of
\* capacity 5: 1.9 m, 2.9 m, 4.8 m, 10.5 m, 12.7 m and 20.9 m north, 11 m
\* south.
GeoLats == {19, 29, 48, 105, 127, 209, -110}

InitGeo ==
    InitApi(EqualEstimates, {ShortAtEquator, ShortAtCenter}) /\ InitSimple /\ InitNoSim /\ InitNoScore /\ InitRet

NextGeo ==
    \/ \E dr \in DroneIds, p \in Detections(PersonIds, {"minor"}),
          lat \in GeoLats : receive_telemetry(dr, p, At(lat))
    \/ add_responder("responder-01", 0, 5, "available")
    \/ get_optimized_routes(AtClock(victims, now))

SpecGeo == InitGeo /\ [][NextGeo]_vars

\* The demo server: what random.uniform may draw for a route's distance and
\* time (the ends of the two intervals), and for a victim's survival.
RandomDraws == {1000, 5000} \X {3600000, 10800000}

InitSimpleApi == InitApi(EqualEstimates, Exact) /\ InitSimple /\ InitNoSim /\ InitNoScore /\ InitRet

NextSimple ==
    \/ \E dr \in DroneIds,
          p \in Detections({"victim-1", "victim-2"}, {"severe", "unconscious"}),
          noise \in {-10, 10} : simple_receive_telemetry(dr, p, At(100), noise)
    \/ \E r \in ResponderIds, k \in ResponderKinds : simple_add_responder(r, 0, k[1], k[2])
    \/ \E rnds \in [1..Len(simple_responders_data) -> RandomDraws] :
          simple_get_optimized_routes(rnds)
    \/ simple_get_victims
    \/ simple_get_system_status

SpecSimple == InitSimpleApi /\ [][NextSimple]_vars

\* The API server over time: two persons 10 m north of a responder, the
\* clock moving between the requests and between the reads of a planning
\* pass, the three handlers that plan, and the two listings.
InitClock == InitApi(MixedEstimates, {ShortAtEquator, ShortAtCenter}) /\ InitSimple /\ InitNoSim /\ InitNoScore /\ InitRet

NextClock ==
    \/ \E dr \in DroneIds,
          p \in Detections({"victim-1", "victim-2"}, {"minor", "severe"}) :
              receive_telemetry(dr, p, At(100))
    \/ \E st \in {"available", "unavailable"} : add_responder("responder-01", 0, 5, st)
    \/ \E reads \in ClockReads(victims) : get_optimized_routes(reads)
    \/ \E reads \in ClockReads(victims) : update_routes(reads)
    \/ \E reads \in ClockReads(victims) : get_dashboard_data(reads)
    \/ get_victims
    \/ get_system_status
    \/ Tick

SpecClock == InitClock /\ [][NextClock]_vars

\* Ingestion: detections 10 m north and south of the reference point, and
\* 25000 km north of it, which is no latitude at all.
InitIngest == InitApi(MixedEstimates, Exact) /\ InitSimple /\ InitNoSim /\ InitNoScore /\ InitRet

NextIngest ==
    \/ \E dr \in DroneIds,
          p \in Detections({"victim-1", "victim-2"}, {"minor", "severe"}),
          lat \in {100, -100, 250000000} : receive_telemetry(dr, p, At(lat))
    \/ get_victims

SpecIngest == InitIngest /\ [][NextIngest]_vars

\* The fleet: responders of any capacity the request type takes, a negative
\* one and 0 included, and one person 10 m north of them.
InitFleet == InitApi(MixedEstimates, {ShortAtEquator, ShortAtCenter}) /\ InitSimple /\ InitNoSim /\ InitNoScore /\ InitRet

NextFleet ==
    \/ \E dr \in DroneIds, p \in Detections({"victim-1"}, {"minor"}) :
          receive_telemetry(dr, p, At(100))
    \/ \E r \in ResponderIds, c \in {-1, 0, 1, 5}, st \in {"available", "unavailable"} :
          add_responder(r, 0, c, st)
    \/ get_optimized_routes(AtClock(victims, now))

SpecFleet == InitFleet /\ [][NextFleet]_vars

\* The Victim a caller of the optimizer hands to update_route_dynamically:
\* victim-1, whom the server may have stored or not, 200 m north of the
\* reference point.
NewVictims ==
    {[id |-> "victim-1", lat |-> 2000, survival_likelihood |-> 45,
      injury_level |-> "severe", time_detected |-> now, priority_score |-> 0]}

\* The Victim objects of the server that a caller hands to
\* update_route_dynamically: the one victims_data holds for victim-1.
ServersVictims ==
    {victims_data[i] : i \in {k \in 1..Len(victims_data) : victims_data[k].id = "victim-1"}}

\* The cap: three persons 10 m or 200 m north of two available responders,
\* passes of the optimizer with a cap of 0, 1, 2 or 5 victims for a
\* responder, and passes that begin with a victim of the caller or with a
\* Victim object of the server.
InitCap == InitApi(MixedEstimates, {ShortAtEquator, ShortAtCenter}) /\ InitSimple /\ InitNoSim /\ InitNoScore /\ InitRet

NextCap ==
    \/ \E dr \in DroneIds, p \in Detections(PersonIds, {"minor"}),
          lat \in {100, 2000} : receive_telemetry(dr, p, At(lat))
    \/ \E r \in ResponderIds : add_responder(r, 0, 5, "available")
    \/ \E max_victims_per_responder \in {0, 1, 2, 5} :
          optimize_routes_call(max_victims_per_responder, AtClock(victims, now))
    \/ \E new_victim \in NewVictims :
          update_route_dynamically(new_victim, FALSE,
                                   AtClock(DictPut(victims, new_victim), now))
    \/ \E new_victim \in ServersVictims :
          update_route_dynamically(new_victim, TRUE,
                                   AtClock(DictPut(victims, new_victim), now))

SpecCap == InitCap /\ [][NextCap]_vars

\* What a drone with a broken detector sends: a person without person_id, a
\* person without injury_level, and a whole person from a position without
\* lat or without lon.
Unprocessable ==
    {<<[injury_level |-> "minor"], At(100)>>,
     <<[person_id |-> "victim-2"], At(100)>>,
     <<[person_id |-> "victim-2", injury_level |-> "minor"], [lon |-> 0]>>,
     <<[person_id |-> "victim-2", injury_level |-> "minor"], [lat |-> 100]>>}

\* Failures: both servers, each with drone-001, which sends whole persons
\* 10 m north of the reference point, and drone-002, whose messages cannot
\* be processed.
InitFailure == InitApi(MixedEstimates, Exact) /\ InitSimple /\ InitNoSim /\ InitNoScore /\ InitRet

NextFailure ==
    \/ \E p \in Detections({"victim-1", "victim-2"}, {"minor"}) :
          receive_telemetry("drone-001", p, At(100))
    \/ \E m \in Unprocessable : receive_telemetry("drone-002", <<m[1]>>, m[2])
    \/ \E p \in Detections({"victim-1", "victim-2"}, {"minor"}), noise \in {-10, 10} :
          simple_receive_telemetry("drone-001", p, At(100), noise)
    \/ \E m \in Unprocessable, noise \in {-10, 10} :
          simple_receive_telemetry("drone-002", <<m[1]>>, m[2], noise)

SpecFailure == InitFailure /\ [][NextFailure]_vars

\* Concurrency: up to MaxInFlight requests in flight at the server: detections
\* of a person 10 m and 12 m north of the reference point, registrations of
\* two responders there, and planning passes.
InitLoop ==
    InitApi(EqualEstimates, {{}, ShortAtEquator, ShortAtCenter, Pairs({0, 100, 120})}) /\ InitSimple /\ InitNoSim /\ InitNoScore /\ InitRet

\* The telemetry messages and the registrations that arrive.
TelemetryRequests ==
    {[drone_id |-> "drone-001", detected_person |-> p, position |-> At(lat)] :
        p \in Detections({"victim-1"}, {"minor"}), lat \in {100, 120}}

ResponderRequests ==
    {[id |-> r, lat |-> 0, capacity |-> 5, status |-> "available",
      current_route |-> <<>>] : r \in ResponderIds}

NextLoop ==
    \/ \E args \in TelemetryRequests :
          accept_request("receive_telemetry", "append", args)
    \/ \E args \in ResponderRequests :
          accept_request("add_responder", "add_responder", args)
    \/ accept_request("get_optimized_routes", "select", <<>>)
    \/ \E i \in 1..Len(tasks) : resume(i)
    \/ run_receive_telemetry
    \/ run_add_responder
    \/ run_get_optimized_routes

SpecLoop == InitLoop /\ [][NextLoop]_vars

\* The simulator: DroneSimulator(num_drones) for a fleet of up to MaxDrones,
\* batteries of 60% or 100%, then batches of telemetry in which a battery
\* drains by 0.5% or 2%.
InitSim ==
    /\ InitApi(EqualEstimates, Exact) /\ InitSimple /\ InitNoScore /\ InitRet
    /\ \E num_drones \in 0..MaxDrones :
          \E rnd \in [1..num_drones -> {120, 200} \X {"searching", "tracking", "returning"}] :
              drones = initialize_drones(num_drones, rnd)
    /\ message_seq = 0
    /\ sim_victims = 0
    /\ rt_drones = <<>>
    /\ en_drones = <<>>
    /\ en_victims = 0

NextSim ==
    \E draws \in [1..Len(drones) -> {1, 4} \X BOOLEAN \X {0, 1, 2}] :
        generate_telemetry(draws, MaxMessageSeq)

SpecSim == InitSim /\ [][NextSim]_vars

\* Batteries: one drone of one of the three simulators.  In DroneSimulator
\* and RealTimeSimulator from a battery of 60% or 82% to an empty one,
\* draining by 0.5% or 2% an update; a DroneSimulator is followed for
\* MaxBatterySeq messages, the RealTimeSimulator without an end.  In
\* EnhancedDroneSimulator from a battery of 70% or 100%, drawn again as 85%
\* or 100% at every update.
InitBattery ==
    /\ InitApi(EqualEstimates, Exact) /\ InitSimple /\ InitNoScore /\ InitRet
    /\ message_seq = 0
    /\ sim_victims = 0
    /\ en_victims = 0
    /\ \/ /\ \E rnd \in [1..1 -> {120, 164} \X {"searching", "tracking", "returning"}] :
                drones = initialize_drones(1, rnd)
          /\ rt_drones = <<>> /\ en_drones = <<>>
       \/ /\ drones = <<>> /\ en_drones = <<>>
          /\ \E rnd \in [1..1 -> {120, 164}] : rt_drones = initialize_simulation(1, rnd)
       \/ /\ drones = <<>> /\ rt_drones = <<>>
          /\ \E rnd \in [1..1 -> {140, 200}] :
                en_drones = enhanced_initialize_simulation(1, rnd)

NextBattery ==
    \/ \E draws \in [1..Len(drones) -> {1, 4} \X BOOLEAN \X {0}] :
          generate_telemetry(draws, MaxBatterySeq)
    \/ \E drains \in [1..Len(rt_drones) -> {1, 4}] : update_drone_positions(drains)
    \/ \E k \in 1..Len(en_drones), battery \in {170, 200}, resumes \in BOOLEAN :
          enhanced_update_drone_status(k, battery, resumes)
    \/ \E k \in 1..Len(en_drones), due \in BOOLEAN, found \in BOOLEAN :
          enhanced_check_for_victims(k, due, found)

SpecBattery == InitBattery /\ [][NextBattery]_vars

\* The score of one victim, of any survival likelihood and injury level,
\* computed again and again while the clock moves on.
InitScore ==
    /\ InitApi(EqualEstimates, Exact) /\ InitSimple /\ InitNoSim /\ InitRet
    /\ score_victim \in [survival_likelihood : {0, 45, 60, 100},
                          injury_level : {"none", "minor", "severe", "unconscious", "critical"},
                          time_detected : 0..1]
    /\ score_clock = 0
    /\ score_log = <<>>

NextScore == ScoreTick \/ ComputeScore

SpecScore == InitScore /\ [][NextScore]_vars

-----------------------------------------------------------------------------
(* What the claims speak of.                                               *)

\* The planning pass whose answer is the last thing returned.
Planned == ret.op = "get_optimized_routes"

\* The solutions of that pass.
Solutions == IF Planned THEN ret.val ELSE <<>>

AvailableResponders == {i \in 1..Len(responders) : responders[i].status = "available"}

\* The ids of the c victims of highest stored score.
TopIds(c) == {v.id : v \in Range(Take(sorted_by_priority(victims), c))}

\* The real distance, in decimetres, between a responder and a victim.
DistanceTo(responder, victim) == Arc(responder.lat, victim.lat)

\* The whole metres the planner takes for the distance between two latitudes.
Metres(lat1, lat2) == IntMetres(calculate_distance(lat1, lat2))

\* ids, as a route lists them, lie at strictly growing distance from the responder.
NearestFirst(responder, route) ==
    \A k \in 1..(Len(route) - 1) :
        DistanceTo(responder, DictGet(victims, route[k]))
            < DistanceTo(responder, DictGet(victims, route[k + 1]))

\* One available responder, and victims of equal priority at pairwise
\* different distances from it.
ScenarioA ==
    /\ Planned
    /\ Len(responders) = 1 /\ AvailableResponders = {1}
    /\ Len(victims) >= 2
    /\ \A i, j \in 1..Len(victims) :
          /\ victims[i].priority_score = victims[j].priority_score
          /\ i # j => DistanceTo(responders[1], victims[i]) # DistanceTo(responders[1], victims[j])

\* All victims on one side of the responder, and the planner's whole metres
\* as on a line: different from the responder to different victims, and
\* between two victims the difference of their distances from the responder.
OneSidedAdditiveMetres ==
    /\ \A i, j \in 1..Len(victims) :
          (victims[i].lat > responders[1].lat) = (victims[j].lat > responders[1].lat)
    /\ \A i, j \in 1..Len(victims) :
          /\ i # j => Metres(responders[1].lat, victims[i].lat)
                          # Metres(responders[1].lat, victims[j].lat)
          /\ Metres(victims[i].lat, victims[j].lat)
                = Abs(Metres(responders[1].lat, victims[i].lat)
                        - Metres(responders[1].lat, victims[j].lat))

-----------------------------------------------------------------------------
(* C1.  No double assignment: across the solutions of one planning pass    *)
(* each victim id is in at most one responder's route.                     *)
C1_NoDoubleAssignment ==
    \A i, j \in 1..Len(Solutions) :
        i # j => Range(Solutions[i].route) \cap Range(Solutions[j].route) = {}

(* C2.  Capacity respect: a route holds at most as many victims as the     *)
(* capacity of the responder it is for.                                    *)
C2_CapacityRespect ==
    \A i \in 1..Len(Solutions) :
        Len(Solutions[i].route) <= DictGet(responders, Solutions[i].responder_id).capacity

(* C6.  A planning pass with no victims, with no responders, or with no    *)
(* responder of status 'available' returns the empty list.                 *)
C6_EmptyInputsGiveNoRoutes ==
    (Planned /\ (victims = <<>> \/ responders = <<>> \/ AvailableResponders = {}))
        => ret.val = <<>>

\* A pass over victims and responders none of whom is available.
C6_Witness ==
    /\ Planned /\ victims # <<>> /\ responders # <<>> /\ AvailableResponders = {}
    /\ ret.val = <<>>

(* C7.  With an available responder and a victim, the planning pass        *)
(* returns at least one route, wherever they are.                          *)
C7_AvailableResponderGetsRoute ==
    (Planned /\ victims # <<>> /\ AvailableResponders # {}) => ret.val # <<>>

(* C9.  Scenario A: one available responder and victims of equal priority  *)
(* at strictly increasing distances: the route is nearest-first.           *)
C9_NearestFirst ==
    ScenarioA => \A i \in 1..Len(ret.val) : NearestFirst(responders[1], ret.val[i].route)

(* C9, amended.  The same, for victims that all lie in one direction from  *)
(* the responder, when the whole metres the planner computes differ from   *)
(* victim to victim and are, between two victims, the difference of their  *)
(* distances from the responder: any route returned is nearest-first.      *)
C9_NearestFirstOneSided ==
    (ScenarioA /\ OneSidedAdditiveMetres)
        => \A i \in 1..Len(ret.val) : NearestFirst(responders[1], ret.val[i].route)

\* Three such victims, not detected in the order of their distance, and routed.
C9_Witness ==
    /\ ScenarioA /\ OneSidedAdditiveMetres
    /\ Len(victims) = 3
    /\ ~NearestFirst(responders[1], [i \in 1..3 |-> victims[i].id])
    /\ Len(ret.val) = 1 /\ Len(ret.val[1].route) = 3

(* C10.  Scenario B: one available responder of capacity c and more than c *)
(* victims, all at the same distance: the route is exactly the c victims   *)
(* of highest priority score.                                              *)
C10_CapacitySelectsTop ==
    (/\ Planned
     /\ Len(responders) = 1 /\ AvailableResponders = {1}
     /\ Len(victims) > responders[1].capacity
     /\ \A i, j \in 1..Len(victims) :
           DistanceTo(responders[1], victims[i]) = DistanceTo(responders[1], victims[j]))
        => /\ Len(ret.val) = 1
           /\ Range(ret.val[1].route) = TopIds(responders[1].capacity)
           /\ Len(ret.val[1].route) = responders[1].capacity

(* C3.  Replan idempotence: a planning pass that directly follows another, *)
(* nothing having changed in between, returns the same solution list.      *)
C3_ReplanReturnsSame ==
    [][(ret.op = "simple_get_optimized_routes" /\ ret'.op = "simple_get_optimized_routes")
          => ret'.val = ret.val]_vars

(* C4.  Dedup: detections at one physical location leave exactly one       *)
(* victim in the registry, in whatever order they arrive; so no two        *)
(* registered victims stand at the same position (which is within any      *)
(* merge radius).                                                          *)
C4_OneVictimPerLocation ==
    \A i, j \in 1..Len(victims) :
        i # j => calculate_distance(victims[i].lat, victims[j].lat) > 0

(* C5.  Score monotonicity: of two scores of the same victim record, the   *)
(* one computed at the later time is greater than or equal to the other.   *)
C5_ScoreMonotone ==
    (Len(score_log) = 2 /\ score_log[1].at >= score_log[2].at)
        => score_log[1].score >= score_log[2].score

\* Two scores of a victim computed at different times, the later one greater.
C5_Witness ==
    /\ Len(score_log) = 2
    /\ score_log[1].at > score_log[2].at
    /\ score_log[1].score > score_log[2].score

(* C8.  generate_telemetry returns one record per drone of the fleet, each *)
(* with a non-empty drone id, the ids of a batch pairwise distinct; on     *)
(* every call.                                                             *)
C8_OneRecordPerDrone ==
    ret.op = "generate_telemetry"
        => /\ Len(ret.val) = Len(drones)
           /\ \A i \in 1..Len(ret.val) :
                 ret.val[i].drone_id.prefix # "" \/ ret.val[i].drone_id.digits # <<>>
           /\ \A i, j \in 1..Len(ret.val) :
                 i # j => ret.val[i].drone_id # ret.val[j].drone_id

\* The second batch of a fleet of two drones.
C8_Witness ==
    /\ ret.op = "generate_telemetry"
    /\ Len(drones) = 2
    /\ Len(ret.val) = 2
    /\ ret.val[1].message_seq = 2 /\ ret.val[2].message_seq = 3
    /\ ret.val[1].drone_id # ret.val[2].drone_id

(* C11.  Scenario D: a victim older than maxAge that was never assigned to *)
(* a responder is expired and absent from the victim listing.  Where no    *)
(* responder was ever registered no victim was ever assigned, so there the *)
(* listing shows no victim older than maxAge.                              *)
C11_StaleVictimsNotListed ==
    (ret.op = "get_victims" /\ responders = <<>>)
        => \A i \in 1..Len(ret.val) : now - ret.val[i].time_detected <= maxAge

(* C12.  The solution list of a planning pass, of the optimizer or of the  *)
(* demo server, holds no entry with an empty route: a responder with       *)
(* nothing assigned is left out.                                           *)
C12_NoEmptyRoute ==
    ret.op \in {"get_optimized_routes", "simple_get_optimized_routes"}
        => \A i \in 1..Len(ret.val) : ret.val[i].route # <<>>

\* The store a victim listing reads: of main.py, or of the demo server.
ListedStore == IF ret.op = "get_victims" THEN victims_data ELSE simple_victims_data

(* C13.  GET /victims returns all stored victims, ordered by priority      *)
(* score descending: of two neighbours in the list the earlier one's score *)
(* is greater than or equal to the later one's.                            *)
C13_ListingSortedByScore ==
    ret.op \in {"get_victims", "simple_get_victims"}
        => /\ Len(ret.val) = Len(ListedStore)
           /\ Range(ret.val) = Range(ListedStore)
           /\ \A k \in 1..(Len(ret.val) - 1) :
                 ret.val[k].priority_score >= ret.val[k + 1].priority_score

\* A listing, after a planning pass, of two victims stored lowest score first.
C13_Witness ==
    /\ ret.op = "get_victims"
    /\ Len(victims_data) = 2
    /\ victims_data[1].priority_score > 0
    /\ victims_data[1].priority_score < victims_data[2].priority_score
    /\ ret.val[1].id = victims_data[2].id

\* The stores a status report reads: of main.py's optimizer, or of the demo
\* server.
StatusVictims == IF ret.op = "get_system_status" THEN victims ELSE simple_victims_data

StatusResponders == IF ret.op = "get_system_status" THEN responders ELSE simple_responders_data

\* The number of responders of the report's store whose status is 'available'.
StatusAvailable ==
    Cardinality({i \in 1..Len(StatusResponders) : StatusResponders[i].status = "available"})

(* C14.  The status report: system_load is total_victims divided by        *)
(* max(available_responders, 1), available_responders counts exactly the   *)
(* responders of status 'available'; without one the load is the number of *)
(* victims, and without victims the average survival likelihood is 0.      *)
C14_SystemLoad ==
    ret.op \in {"get_system_status", "simple_get_system_status"}
        => LET st == ret.val.status
           IN  /\ st.total_victims = Len(StatusVictims)
               /\ st.available_responders = StatusAvailable
               /\ st.system_load.num * Max(StatusAvailable, 1)
                     = st.total_victims * st.system_load.den
               /\ StatusAvailable = 0
                     => st.system_load = [num |-> Len(StatusVictims), den |-> 1]
               /\ StatusVictims = <<>> => st.average_survival_likelihood.num = 0

\* A report over two victims and responders none of whom is available.
C14_Witness ==
    /\ ret.op = "get_system_status"
    /\ Len(victims) = 2
    /\ responders # <<>> /\ AvailableResponders = {}
    /\ ret.val.status.system_load = [num |-> 2, den |-> 1]

(* C15.  A detection with invalid coordinates is rejected and dropped, the *)
(* registry unchanged: so the registry never holds a victim at a position  *)
(* that is no latitude, farther than 180 degrees of arc from the reference *)
(* point.                                                                  *)
C15_InvalidCoordinatesDropped ==
    \A i \in 1..Len(victims) : Abs(victims[i].lat) <= LatitudeSpan

(* C16.  In every reachable state each responder's current_route is at     *)
(* most as long as the responder's capacity.                               *)
C16_CurrentRouteWithinCapacity ==
    \A i \in 1..Len(responders) :
        Len(responders[i].current_route) <= responders[i].capacity

(* C16, amended.  The same, for the responders registered with a capacity  *)
(* that is not negative, in the optimizer and in responders_data.          *)
C16_CurrentRouteWithinNaturalCapacity ==
    /\ \A i \in 1..Len(responders) :
          responders[i].capacity >= 0
              => Len(responders[i].current_route) <= responders[i].capacity
    /\ \A i \in 1..Len(responders_data) :
          responders_data[i].capacity >= 0
              => Len(responders_data[i].current_route) <= responders_data[i].capacity

\* A planning pass has routed a victim to a responder of capacity 0.
C16_Witness ==
    /\ Planned
    /\ \E i \in 1..Len(ret.val) :
          /\ ret.val[i].route # <<>>
          /\ DictGet(responders, ret.val[i].responder_id).capacity = 0
          /\ DictGet(responders, ret.val[i].responder_id).current_route = <<>>

(* C17.  A repeated detection of a known victim leaves the victim's        *)
(* detection time and survival likelihood as they were: no step changes    *)
(* either field of a victim that is in the registry.                       *)
C17_RedetectionKeepsFirstDetection ==
    [][\A id \in Keys(victims) \cap Keys(victims') :
          /\ DictGet(victims', id).time_detected = DictGet(victims, id).time_detected
          /\ DictGet(victims', id).survival_likelihood
                = DictGet(victims, id).survival_likelihood]_vars

(* C18.  Every victim id of every returned route is the id of a victim in  *)
(* the registry when the solution is made, and no id is twice in a route.  *)
C18_RoutesNameRegisteredVictimsOnce ==
    \A i \in 1..Len(Solutions) :
        /\ Range(Solutions[i].route) \subseteq Keys(victims)
        /\ \A k, m \in 1..Len(Solutions[i].route) :
              k # m => Solutions[i].route[k] # Solutions[i].route[m]

\* A pass that returned a route over two victims.
C18_Witness ==
    /\ Planned
    /\ Len(ret.val) >= 1
    /\ Len(ret.val[1].route) = 2
    /\ Range(ret.val[1].route) = Keys(victims)

\* The injury multiplier as the specification lists it, times 10.
InjuryMultiplier(level) ==
    IF level = "unconscious" THEN 15
    ELSE IF level = "severe" THEN 13
    ELSE IF level = "minor" THEN 11
    ELSE 10

\* The product of the specification for the victim scored, at clock t,
\* times 240: percent * multiplier * 10 * (24 + elapsed hours).
ScoreProduct(t) ==
    score_victim.survival_likelihood
        * InjuryMultiplier(score_victim.injury_level)
        * (24 + (t - score_victim.time_detected))

(* C19.  The priority score is survival likelihood * 100, times the injury *)
(* multiplier (unconscious 1.5, severe 1.3, minor 1.1, none and any other  *)
(* level 1.0), times (1 + elapsed hours / 24): the score is the double     *)
(* nearest to that product.                                                *)
C19_ScoreFormula ==
    \A k \in 1..Len(score_log) :
        score_log[k].score = ScoreGrain * ScoreProduct(score_log[k].at)

(* C19, amended.  The priority score is that product up to the rounding   *)
(* of the doubles: it lies three doubles at most from the double nearest   *)
(* to survival likelihood * 100 * multiplier * (1 + elapsed hours / 24),   *)
(* with the multipliers 1.5, 1.3, 1.1, 1.0 and 1.0 for any other level.    *)
C19_ScoreFormulaRounded ==
    \A k \in 1..Len(score_log) :
        score_log[k].score - ScoreGrain * ScoreProduct(score_log[k].at) \in -3..3

\* The score of a victim of an unlisted injury level, an hour after
\* detection: 60.0 * 1.0416666666666667 * 1.0 is 62.50000000000001, the
\* double next above 62.5.
C19_Witness ==
    /\ score_log # <<>>
    /\ score_victim.injury_level = "critical"
    /\ score_victim.survival_likelihood = 60
    /\ score_log[1].at = score_victim.time_detected + 1
    /\ score_log[1].score = ScoreGrain * (60 * 10 * 25) + 1

\* The ranking a planning pass has used: the victims as it scored them, in
\* the order of _select_top_victims.
Ranking == select_top_victims(victims, Len(victims))

\* The place of a person id among the ids in ascending order.
IdPlace(id) ==
    IF id = "victim-1" THEN 1 ELSE IF id = "victim-2" THEN 2 ELSE 3

(* C20.  Of two victims of equal priority score the ranking used for       *)
(* planning places first the one detected earlier, and of two detected at  *)
(* the same time the one of the smaller id, in whatever order they were    *)
(* inserted.                                                               *)
C20_TiesByDetectionThenId ==
    (Planned /\ responders # <<>>)
        => \A k, m \in 1..Len(Ranking) :
              (k < m /\ Ranking[k].priority_score = Ranking[m].priority_score)
                  => \/ Ranking[k].time_detected < Ranking[m].time_detected
                     \/ /\ Ranking[k].time_detected = Ranking[m].time_detected
                        /\ IdPlace(Ranking[k].id) < IdPlace(Ranking[m].id)

\* A victim that a responder can fetch on its own within the solver's limit:
\* the tour to it and back is no longer than the 'Time' dimension allows.
FitsAlone(responder, victim) ==
    2 * Metres(responder.lat, victim.lat) <= VehicleCapacity

(* C21.  Budget-respecting greedy assignment: a candidate that does not    *)
(* fit is skipped and does not keep the candidates that fit from being     *)
(* assigned.  For one available responder whose capacity and cap take all  *)
(* victims: every victim that fits on its own is in the responder's route. *)
C21_FittingVictimsAssigned ==
    (/\ Planned
     /\ Len(responders) = 1 /\ AvailableResponders = {1}
     /\ Len(victims) <= Min(responders[1].capacity, MaxVictimsPerResponder))
        => \A i \in 1..Len(victims) :
              FitsAlone(responders[1], victims[i])
                  => \E k \in 1..Len(ret.val) : victims[i].id \in Range(ret.val[k].route)

\* The time a responder needs to reach a victim directly at 5 km/h, in
\* milliseconds, as _extract_solution converts metres into time.
TimeToReach(responder, victim) == Metres(responder.lat, victim.lat) * 720

(* C22.  Every returned route has an estimated duration within the budget  *)
(* of 5 hours (here in milliseconds), and a victim is refused only when    *)
(* reaching it would exceed that budget at 5 km/h: a single victim that an *)
(* available responder reaches within 5 hours gets a route.                *)
C22_RefusedOnlyBeyondFiveHours ==
    Planned =>
        /\ \A k \in 1..Len(ret.val) : ret.val[k].estimated_time <= 5 * 3600 * 1000
        /\ (/\ Len(victims) = 1 /\ Len(responders) = 1 /\ AvailableResponders = {1}
            /\ TimeToReach(responders[1], victims[1]) <= 5 * 3600 * 1000)
               => ret.val # <<>>

(* C23.  After a planning pass every responder that received a route has   *)
(* that route as its current_route and has status 'enroute'; a responder   *)
(* that received nothing is still 'available'.                             *)
C23_AssignedRespondersEnroute ==
    Planned =>
        \A i \in 1..Len(responders) :
            LET mine == {k \in 1..Len(ret.val) : ret.val[k].responder_id = responders[i].id}
            IN  IF mine # {}
                THEN /\ responders[i].status = "enroute"
                     /\ \A k \in mine : responders[i].current_route = ret.val[k].route
                ELSE responders[i].status \in {"available", "unavailable"}

\* The responders a planning pass of either server went through.
PlannedResponders ==
    IF ret.op = "get_optimized_routes" THEN responders ELSE simple_responders_data

(* C25.  Only responders whose status is 'available' at the time of the    *)
(* pass appear as responder_id of a returned route, and each of them       *)
(* appears at most once in the solution list.                              *)
C25_OnlyAvailableRoutedOnce ==
    ret.op \in {"get_optimized_routes", "simple_get_optimized_routes"} =>
        /\ \A k \in 1..Len(ret.val) :
              \E i \in 1..Len(PlannedResponders) :
                  /\ PlannedResponders[i].id = ret.val[k].responder_id
                  /\ PlannedResponders[i].status = "available"
        /\ \A k, l \in 1..Len(ret.val) :
              ret.val[k].responder_id = ret.val[l].responder_id => k = l

\* A pass over one available and one unavailable responder that routed the
\* available one.
C25_Witness ==
    /\ Planned
    /\ Len(responders) = 2
    /\ \E i \in 1..2 : responders[i].status = "unavailable"
    /\ Len(ret.val) = 1

RECURSIVE LegSum(_, _, _)
\* The whole metres from a position to the victim at place k of a route, and
\* on from victim to victim to the end of the route.
LegSum(from_lat, route, k) ==
    IF k > Len(route) THEN 0
    ELSE LET lat == DictGet(victims, route[k]).lat
         IN  Metres(from_lat, lat) + LegSum(lat, route, k + 1)

(* C26.  A route's total distance is the sum of the truncated leg          *)
(* distances from the responder's own location to the first victim and     *)
(* between consecutive victims in visit order, with no leg back to the     *)
(* start, and its estimated time is that distance at 5 km/h (720 ms for a  *)
(* metre).                                                                 *)
C26_DistanceIsSumOfLegs ==
    Planned =>
        \A k \in 1..Len(ret.val) :
            LET responder == DictGet(responders, ret.val[k].responder_id)
            IN  /\ ret.val[k].total_distance = LegSum(responder.lat, ret.val[k].route, 1)
                /\ ret.val[k].estimated_time = ret.val[k].total_distance * 720

\* A route over three victims on both sides of the responder: one at a whole
\* number of metres that the float falls short of, two a fraction of a metre
\* off a whole number, of which the float of the leg between them falls
\* short of its whole metre.
C26_Witness ==
    /\ Planned
    /\ \E k \in 1..Len(ret.val) :
          /\ Len(ret.val[k].route) = 3
          /\ ret.val[k].total_distance > 0
          /\ \E i, j, m \in 1..Len(victims) :
                /\ victims[i].lat < 0 /\ {responders[1].lat, victims[i].lat} \in rounding
                /\ victims[j].lat % 10 # 0 /\ victims[m].lat % 10 # 0
                /\ {victims[j].lat, victims[m].lat} \in rounding

\* The ids of a route are c of the highest-scoring victims, each once: none
\* of them scores lower than a victim that is left out.
HighestScoring(ids, c) ==
    /\ Len(ids) = c
    /\ Cardinality(Range(ids)) = c
    /\ Range(ids) \subseteq Keys(victims)
    /\ \A i, j \in 1..Len(victims) :
          (victims[i].id \in Range(ids) /\ victims[j].id \notin Range(ids))
              => victims[i].priority_score >= victims[j].priority_score

(* C27.  All-or-nothing routes: every route optimize_routes returns        *)
(* contains exactly the min(max_victims_per_responder, number of victims)  *)
(* highest-scoring victims, each once, and victims_served is the same set  *)
(* of ids.                                                                 *)
C27_RouteIsWholeCandidateSet ==
    ret.op = "optimize_routes" =>
        LET c == Min(ret.val.max_victims_per_responder, Len(victims))
        IN  \A k \in 1..Len(ret.val.solutions) :
                LET solution == ret.val.solutions[k]
                IN  /\ HighestScoring(solution.route, c)
                    /\ Len(solution.victims_served) = c
                    /\ Range(solution.victims_served) = Range(solution.route)

\* A pass with a cap of 2 over three victims of which the first registered
\* scores lowest: one responder got the two others, whole.
C27_Witness ==
    /\ ret.op = "optimize_routes"
    /\ ret.val.max_victims_per_responder = 2
    /\ Len(victims) = 3
    /\ \A i \in 2..3 : victims[1].priority_score < victims[i].priority_score
    /\ \E k \in 1..Len(ret.val.solutions) :
          /\ Len(ret.val.solutions[k].route) = 2
          /\ victims[1].id \notin Range(ret.val.solutions[k].route)

\* The API-level stores and the optimizer's registries hold the same ids.
SameIds ==
    /\ Keys(victims_data) = Keys(victims)
    /\ Keys(responders_data) = Keys(responders)

\* No id leaves a store or a registry in a step.
NoRemoval ==
    /\ Keys(victims) \subseteq Keys(victims')
    /\ Keys(victims_data) \subseteq Keys(victims_data')
    /\ Keys(responders) \subseteq Keys(responders')
    /\ Keys(responders_data) \subseteq Keys(responders_data')

(* C28.  In the full API, after any sequence of requests the keys of       *)
(* victims_data equal the keys of route_optimizer.victims and the keys of  *)
(* responders_data equal the keys of route_optimizer.responders, and no    *)
(* operation ever removes an entry from either.                            *)
C28_StoresHoldSameIds == []SameIds /\ [][NoRemoval]_vars

\* Two victims and two responders in the stores, one of the victims detected
\* a second time, and a planning pass gone by.
C28_Witness ==
    /\ Planned
    /\ Cardinality(Keys(victims_data)) = 2
    /\ Cardinality(Keys(responders_data)) = 2
    /\ Len(telemetry_data) = 3

(* C29.  When processing the detected person of a telemetry message fails  *)
(* (the person has no person_id or no injury_level, or the position has no *)
(* lat or no lon), the record is still appended to the telemetry log, the  *)
(* request reports success, and the victim stores are left exactly as they *)
(* were before the request; in main.py and in simple_api.py.               *)
C29_FailedProcessingLeavesStores ==
    [][\A m \in Unprocessable :
          /\ receive_telemetry("drone-002", <<m[1]>>, m[2])
                => /\ telemetry_data' = Append(telemetry_data, "drone-002")
                   /\ ret'.val = "success"
                   /\ victims' = victims /\ victims_data' = victims_data
          /\ (\E noise \in {-10, 10} :
                  simple_receive_telemetry("drone-002", <<m[1]>>, m[2], noise))
                => /\ simple_telemetry_data' = Append(simple_telemetry_data, "drone-002")
                   /\ ret'.val = "success"
                   /\ simple_victims_data' = simple_victims_data]_vars

\* Each server holds a victim and has just taken a message that could not
\* be processed: the last record of its log is the broken drone's.
C29_Witness ==
    /\ telemetry_data = <<"drone-001", "drone-002">>
    /\ Len(victims) = 1 /\ Len(victims_data) = 1
    /\ simple_telemetry_data = <<"drone-001", "drone-002">>
    /\ Len(simple_victims_data) = 1
    /\ ret.val = "success"

\* The drones of both simulators.
AllDrones == drones \o rt_drones \o en_drones

\* The fleets of the two simulators whose batteries drain.
DrainingDrones == drones \o rt_drones

\* What an update does to a drone.
BatteryStep(before, after) ==
    /\ after.battery <= before.battery
    /\ after.battery < 2 * 20 => after.status = "returning"
    /\ before.battery < 2 * 20 => after.status = "returning"
    /\ (before.status = "searching" /\ after.status # "searching")
          => after.battery < 2 * 20

(* C30.  In the drone simulators a drone's battery never increases and     *)
(* stays within 0 and 100 percent (200 half percents) across updates; once *)
(* an update leaves the battery below 20 percent the drone is 'returning'  *)
(* after that and after every later update.  So no drone is ever 'idle',   *)
(* and a drone leaves 'searching' only with a battery below 20 percent,    *)
(* from where it never is 'searching' again.                               *)
C30_BatteryAndStatus ==
    /\ [](\A i \in 1..Len(AllDrones) :
             /\ AllDrones[i].battery \in 0..200
             /\ AllDrones[i].status # "idle")
    /\ [][\A i \in 1..Len(AllDrones) :
             BatteryStep(AllDrones[i], (drones' \o rt_drones' \o en_drones')[i])]_vars

(* C30, amended.  The same of the drones of DroneSimulator and of          *)
(* RealTimeSimulator, the two simulators in which a battery drains.        *)
C30_BatteryAndStatusDraining ==
    /\ [](\A i \in 1..Len(DrainingDrones) :
             /\ DrainingDrones[i].battery \in 0..200
             /\ DrainingDrones[i].status # "idle")
    /\ [][(drones' # drones \/ rt_drones' # rt_drones)
             => \A i \in 1..Len(DrainingDrones) :
                   BatteryStep(DrainingDrones[i], (drones' \o rt_drones')[i])]_vars

\* A drone that went on 'returning' through two updates, the battery below
\* 10 percent after both.
C30_Witness ==
    /\ ret.op \in {"generate_telemetry", "update_drone_positions"}
    /\ \E i \in 1..Len(DrainingDrones) :
          /\ DrainingDrones[i].battery < 2 * 10 - 4
          /\ DrainingDrones[i].battery > 0
          /\ DrainingDrones[i].status = "returning"

\* The planning passes that have scored the victims and not yet routed.
PassesUnderWay ==
    {i \in 1..Len(tasks) : tasks[i].op = "get_optimized_routes" /\ tasks[i].pc = "route"}

\* The requests that have begun and not ended: their first statement is done.
Begun ==
    {i \in 1..Len(tasks) : tasks[i].pc \notin {"append", "add_responder", "select"}}

(* C24.  Consistent snapshot under concurrent requests: no detection and   *)
(* no responder update takes effect in the middle of a planning pass.      *)
(* While a pass is under way the registries are as the pass found them     *)
(* (the victims with the scores the pass gave them) and no other request   *)
(* is half done; and the solution list a pass returns is the one           *)
(* optimize_routes computes from the registries as they were when the pass *)
(* began.                                                                  *)
C24_ConsistentSnapshot ==
    /\ [](\A i \in PassesUnderWay :
             /\ victims = Rescored(tasks[i].local.victims_at_start,
                                   AtClock(tasks[i].local.victims_at_start, now))
             /\ responders = tasks[i].local.responders_at_start
             /\ Begun = {i})
    /\ [][(running # 0 /\ running \in PassesUnderWay /\ Len(tasks') < Len(tasks))
             => ret'.val = optimize_routes(tasks[running].local.victims_at_start,
                                           tasks[running].local.responders_at_start,
                                           AtClock(tasks[running].local.victims_at_start, now),
                                           MaxVictimsPerResponder).solutions]_vars

\* A pass under way over a victim and a responder, while a detection of that
\* victim at another position waits for its turn.
C24_Witness ==
    /\ running \in PassesUnderWay
    /\ victims # <<>> /\ responders # <<>>
    /\ \E j \in 1..Len(tasks) :
          /\ tasks[j].op = "receive_telemetry"
          /\ tasks[j].pc = "append"
          /\ tasks[j].args.detected_person # <<>>
          /\ \E v \in 1..Len(victims) :
                /\ victims[v].id = tasks[j].args.detected_person[1].person_id
                /\ victims[v].lat # tasks[j].args.position.lat

=============================================================================
